---- MODULE Spec2Model ----
(***************************************************************************)
(* django-postgresql-dag: the edge store, the mutation guards of           *)
(* Node/Edge (models.py) and the recursive traversal queries               *)
(* (query_builders.py), with the recursive CTEs evaluated level by level   *)
(* the way PostgreSQL evaluates WITH RECURSIVE.                            *)
(***************************************************************************)
EXTENDS Integers, Sequences, FiniteSets, TLC

\* ---- bounds of the model ------------------------------------------------
NumNodes == 3
MaxEdgeId == 3
MaxDepthArg == 1
SmallMaxDepth == 1
MaxResultsArg == 2
MaxWeight == 3
MaxGraphEdges == 4
NumEdgeSets == 1

\* ---- program constants --------------------------------------------------
\* getattr(settings, "DJANGO_POSTGRESQL_DAG_MAX_DEPTH", 20)
DefaultMaxDepth == 20
\* weight = models.FloatField(default=1.0)
DefaultWeight == 1

Nodes == 1..NumNodes
NoneArg == -1

VARIABLES
    nodes,        \* the node table: the pks that exist
    edges,        \* the edge table: set of rows [id, parent, child, weight]
    nextId,       \* the edge table's primary-key sequence
    maxDepthSetting, \* settings.DJANGO_POSTGRESQL_DAG_MAX_DEPTH of the deployment
    op,           \* the last call made: name and arguments
    ret,          \* what that call did: outcome, returned pks, returned number
    signals,      \* the signals that call sent and the statements it ran on
                  \* the edge table (INSERT, UPDATE, DELETE), in order
    writers       \* concurrent writers: position between probe and write

vars == <<nodes, edges, nextId, maxDepthSetting, op, ret, signals, writers>>

\* ---- sequences ----------------------------------------------------------
Range(s) == {s[i] : i \in 1..Len(s)}

Reverse(s) == [i \in 1..Len(s) |-> s[Len(s) + 1 - i]]

Min(a, b) == IF a <= b THEN a ELSE b

\* ORDER BY: the elements of S as a list in ascending order of key[x]
RECURSIVE OrderBy(_, _)
OrderBy(S, key) ==
    IF S = {} THEN <<>>
    ELSE LET x == CHOOSE y \in S : \A z \in S : key[y] <= key[z]
         IN  <<x>> \o OrderBy(S \ {x}, key)

\* utils._ordered_filter on the node table: the rows whose pk is among the
\* values, ordered by the position of the first When that matches
RECURSIVE _ordered_filter(_)
_ordered_filter(pks) ==
    IF pks = <<>> THEN <<>>
    ELSE LET rest == _ordered_filter(SubSeq(pks, 1, Len(pks) - 1))
             last == pks[Len(pks)]
         IN  IF last \in Range(rest) \/ last \notin Nodes THEN rest
             ELSE Append(rest, last)

\* BaseQuery.__init__: max_depth if max_depth is not None else the setting
EffectiveMaxDepth(md, setting) == IF md = NoneArg THEN setting ELSE md

\* ---- the filter keyword arguments of BaseQuery.__init__ ------------------
\* edge_set = models.ForeignKey(EdgeSet, null=True, ...): NULL, or the pk of
\* an EdgeSet
NoEdgeSet == 0

EdgeSets == 1..NumEdgeSets

\* a queryset keyword argument: not passed (None), or the pks it holds
NoQuerySet == [given |-> FALSE, pks |-> {}]

QuerySet(pks) == [given |-> TRUE, pks |-> pks]

\* limiting_edges_set_fk is NoneArg or the pk of an EdgeSet
FilterSpec(fk, dn, de, an, ae) ==
    [limiting_edges_set_fk |-> fk,
     disallowed_nodes_queryset |-> dn, disallowed_edges_queryset |-> de,
     allowed_nodes_queryset |-> an, allowed_edges_queryset |-> ae]

NoFilters == FilterSpec(NoneArg, NoQuerySet, NoQuerySet, NoQuerySet, NoQuerySet)

\* BaseQuery.disallow_nodes and its three siblings: `if not self.<queryset>:
\* return`, so the clause is added for a queryset that is given and holds a row
HasRows(queryset) == queryset.given /\ queryset.pks # {}

\* _disallow_nodes and _allow_nodes: the clauses on the node a row adds
NodeClauses(n, f) ==
    /\ HasRows(f.disallowed_nodes_queryset) => n \notin f.disallowed_nodes_queryset.pks
    /\ HasRows(f.allowed_nodes_queryset) => n \in f.allowed_nodes_queryset.pks

\* _disallow_edges and _allow_edges: the clauses on the edge a row follows
EdgeClauses(e, f) ==
    /\ HasRows(f.disallowed_edges_queryset) => e.id \notin f.disallowed_edges_queryset.pks
    /\ HasRows(f.allowed_edges_queryset) => e.id \in f.allowed_edges_queryset.pks

\* ---- AncestorQuery / DescendantQuery ------------------------------------
\* The rows the k-th evaluation of the CTE adds to traverse, all of depth k.
\* UNION removes duplicates only; the recursive term has no depth condition.
RECURSIVE AncestorLevel(_, _, _)
AncestorLevel(E, pk, k) ==
    IF k = 1 THEN {e.parent : e \in {f \in E : f.child = pk}}
    ELSE LET prev == AncestorLevel(E, pk, k - 1)
         IN  {e.parent : e \in {f \in E : f.child \in prev}}

RECURSIVE DescendantLevel(_, _, _)
DescendantLevel(E, pk, k) ==
    IF k = 1 THEN {e.child : e \in {f \in E : f.parent = pk}}
    ELSE LET prev == DescendantLevel(E, pk, k - 1)
         IN  {e.child : e \in {f \in E : f.parent \in prev}}

\* A walk of NumNodes + 1 edges repeats a node, so it runs through a cycle and
\* can be extended for ever: the working table is non-empty at depth
\* NumNodes + 1 exactly when it is never empty, and the query does not return.
AncestorDiverges(E, pk) == AncestorLevel(E, pk, NumNodes + 1) # {}

DescendantDiverges(E, pk) == DescendantLevel(E, pk, NumNodes + 1) # {}

\* AncestorQuery with the outer WHERE depth <= max_depth left out
AncestorQuery_unbounded(E, pk, maxDepth) ==
    LET K      == NumNodes
        ids    == UNION {AncestorLevel(E, pk, k) : k \in 1..K}
        maxd   == [n \in ids |-> CHOOSE k \in 1..K :
                      /\ n \in AncestorLevel(E, pk, k)
                      /\ \A j \in (k + 1)..K : n \notin AncestorLevel(E, pk, j)]
        key    == [n \in ids |-> (K - maxd[n]) * (NumNodes + 1) + n]
    IN  OrderBy(ids, key)

\* SELECT pk FROM traverse WHERE depth <= max_depth GROUP BY pk
\* ORDER BY MAX(depth) DESC, pk ASC
AncestorQuery(E, pk, maxDepth) ==
    LET K      == Min(maxDepth, NumNodes)
        ids    == UNION {AncestorLevel(E, pk, k) : k \in 1..K}
        maxd   == [n \in ids |-> CHOOSE k \in 1..K :
                      /\ n \in AncestorLevel(E, pk, k)
                      /\ \A j \in (k + 1)..K : n \notin AncestorLevel(E, pk, j)]
        key    == [n \in ids |-> (K - maxd[n]) * (NumNodes + 1) + n]
    IN  OrderBy(ids, key)

\* ... ORDER BY MAX(depth), pk ASC
DescendantQuery(E, pk, maxDepth) ==
    LET K      == Min(maxDepth, NumNodes)
        ids    == UNION {DescendantLevel(E, pk, k) : k \in 1..K}
        maxd   == [n \in ids |-> CHOOSE k \in 1..K :
                      /\ n \in DescendantLevel(E, pk, k)
                      /\ \A j \in (k + 1)..K : n \notin DescendantLevel(E, pk, j)]
        key    == [n \in ids |-> maxd[n] * (NumNodes + 1) + n]
    IN  OrderBy(ids, key)

\* Node.ancestors(**kwargs)
ancestors(E, pk, maxDepth) == _ordered_filter(AncestorQuery(E, pk, maxDepth))

\* Node.descendants(**kwargs)
descendants(E, pk, maxDepth) == _ordered_filter(DescendantQuery(E, pk, maxDepth))

\* Node.self_and_ancestors(): [self.pk] + ancestor_pks[::-1]
self_and_ancestors(E, pk, maxDepth) ==
    _ordered_filter(<<pk>> \o Reverse(AncestorQuery(E, pk, maxDepth)))

\* Node.self_and_descendants(): [self.pk] + descendant_pks
self_and_descendants(E, pk, maxDepth) ==
    _ordered_filter(<<pk>> \o DescendantQuery(E, pk, maxDepth))

\* ancestors_and_self with self put first
ancestors_and_self_selfFirst(E, pk, maxDepth) ==
    _ordered_filter(<<pk>> \o AncestorQuery(E, pk, maxDepth))

\* Node.ancestors_and_self(): ancestor_pks + [self.pk]
ancestors_and_self(E, pk, maxDepth) ==
    _ordered_filter(AncestorQuery(E, pk, maxDepth) \o <<pk>>)

\* Node.descendants_and_self(): descendant_pks[::-1] + [self.pk]
descendants_and_self(E, pk, maxDepth) ==
    _ordered_filter(Reverse(DescendantQuery(E, pk, maxDepth)) \o <<pk>>)

\* ---- Node.node_depth ---------------------------------------------------
\* SELECT COALESCE(MAX(depth), 0) FROM traverse, the same recursion as
\* AncestorQuery with no depth condition anywhere
node_depth(E, pk) ==
    LET deep == {k \in 1..NumNodes : AncestorLevel(E, pk, k) # {}}
    IN  IF deep = {} THEN 0 ELSE CHOOSE k \in deep : \A j \in deep : j <= k

\* ---- DownwardPathQuery / UpwardPathQuery ----------------------------------
\* A row of traverse is the list of edges it was built from: its path column
\* is the list of their parents (children, going upward), its depth their
\* number. UNION ALL keeps one row per list of edges.
Last(r) == r[Len(r)]

DownPath(r) == [i \in 1..Len(r) |-> r[i].parent]

UpPath(r) == [i \in 1..Len(r) |-> r[i].child]

\* first.parent_id = second.child_id AND first.parent_id <> ALL(second.path)
RECURSIVE DownLevel(_, _, _)
DownLevel(E, start, k) ==
    IF k = 1 THEN {<<e>> : e \in {f \in E : f.parent = start}}
    ELSE UNION {{Append(r, e) : e \in {f \in E : f.parent = Last(r).child
                                               /\ f.parent \notin Range(DownPath(r))}}
                : r \in DownLevel(E, start, k - 1)}

\* first.child_id = second.parent_id AND first.child_id <> ALL(second.path)
RECURSIVE UpLevel(_, _, _)
UpLevel(E, start, k) ==
    IF k = 1 THEN {<<e>> : e \in {f \in E : f.child = start}}
    ELSE UNION {{Append(r, e) : e \in {f \in E : f.child = Last(r).parent
                                               /\ f.child \notin Range(UpPath(r))}}
                : r \in UpLevel(E, start, k - 1)}

\* the nodes of a path column are distinct, so no row has more than NumNodes
\* edges and the recursion ends by itself
DownRows(E, start) == UNION {DownLevel(E, start, k) : k \in 1..NumNodes}

UpRows(E, start) == UNION {UpLevel(E, start, k) : k \in 1..NumNodes}

\* array comparison of two path columns of equal length
LexLeq(a, b) ==
    \/ a = b
    \/ \E i \in 1..Len(a) : a[i] < b[i] /\ \A j \in 1..(i - 1) : a[j] = b[j]

\* ORDER BY depth DESC, path LIMIT 1
FirstPath_deepest(paths) ==
    CHOOSE x \in paths : \A y \in paths :
        Len(x) > Len(y) \/ (Len(x) = Len(y) /\ LexLeq(x, y))

\* ORDER BY depth, path LIMIT 1 over the given path columns
FirstPath(paths) ==
    CHOOSE x \in paths : \A y \in paths :
        Len(x) < Len(y) \/ (Len(x) = Len(y) /\ LexLeq(x, y))

\* SELECT path || ARRAY[ending_node] ... WHERE child_id = ending_node
\* AND depth <= max_depth ORDER BY depth, path LIMIT 1, unnested
DownwardPathQuery(E, start, end, maxDepth) ==
    LET found == {DownPath(r) : r \in {q \in DownRows(E, start) :
                     Last(q).child = end /\ Len(q) <= maxDepth}}
    IN  IF found = {} THEN <<>> ELSE Append(FirstPath(found), end)

\* UpwardPathQuery returning its path root side first
UpwardPathQuery_rootFirst(E, start, end, maxDepth) ==
    LET found == {UpPath(r) : r \in {q \in UpRows(E, start) :
                     Last(q).parent = end /\ Len(q) <= maxDepth}}
    IN  IF found = {} THEN <<>> ELSE Reverse(Append(FirstPath(found), end))

\* ... WHERE parent_id = ending_node ...
UpwardPathQuery(E, start, end, maxDepth) ==
    LET found == {UpPath(r) : r \in {q \in UpRows(E, start) :
                     Last(q).parent = end /\ Len(q) <= maxDepth}}
    IN  IF found = {} THEN <<>> ELSE Append(FirstPath(found), end)

\* path_raw that runs the upward query whenever the downward one is empty,
\* whatever directional says
path_raw_bothways(E, start, end, directional, maxDepth) ==
    IF start = end THEN <<start>>
    ELSE LET down == DownwardPathQuery(E, start, end, maxDepth)
         IN  IF down = <<>>
             THEN UpwardPathQuery(E, start, end, maxDepth)
             ELSE down

\* Node.path_raw: the rows of the query it returns; empty stands for
\* NodeNotReachableException
path_raw(E, start, end, directional, maxDepth) ==
    IF start = end THEN <<start>>
    ELSE LET down == DownwardPathQuery(E, start, end, maxDepth)
         IN  IF down = <<>> /\ ~directional
             THEN UpwardPathQuery(E, start, end, maxDepth)
             ELSE down

\* Node.path_raw: the queries it executes, in order
path_raw_queries(E, start, end, directional, maxDepth) ==
    IF start = end THEN <<>>
    ELSE IF DownwardPathQuery(E, start, end, maxDepth) = <<>> /\ ~directional
         THEN <<"DownwardPathQuery", "UpwardPathQuery">>
         ELSE <<"DownwardPathQuery">>

\* Node.path_exists: len(list(path_raw(...))) >= 1, False on
\* NodeNotReachableException
path_exists(E, start, end, directional, maxDepth) ==
    Len(path_raw(E, start, end, directional, maxDepth)) >= 1

\* Node.is_ancestor_of: len(self.path_raw(ending_node)) >= 1, False on
\* NodeNotReachableException
is_ancestor_of(E, self, ending_node, maxDepth) ==
    Len(path_raw(E, self, ending_node, TRUE, maxDepth)) >= 1

\* Node.is_descendant_of: False if self is an ancestor of ending_node, else
\* len(self.path_raw(ending_node, directional=False)) >= 1
is_descendant_of(E, self, ending_node, maxDepth) ==
    IF is_ancestor_of(E, self, ending_node, maxDepth) THEN FALSE
    ELSE Len(path_raw(E, self, ending_node, FALSE, maxDepth)) >= 1

\* Node.path
path(E, start, end, directional, maxDepth) ==
    IF start = end THEN _ordered_filter(<<start>>)
    ELSE _ordered_filter(path_raw(E, start, end, directional, maxDepth))

\* Node.distance: self.path(ending_node, **kwargs).count() - 1
distance(E, start, end, directional, maxDepth) ==
    IF start = end THEN 0
    ELSE Len(path(E, start, end, directional, maxDepth)) - 1

\* ---- AllDownwardPathsQuery / AllUpwardPathsQuery -------------------------
\* the rows of traverse with child_id = ending_node AND depth <= max_depth
AllDownwardRows_strict(E, start, end, maxDepth) ==
    {q \in DownRows(E, start) : Last(q).child = end /\ Len(q) < maxDepth}

AllDownwardRows(E, start, end, maxDepth) ==
    {q \in DownRows(E, start) : Last(q).child = end /\ Len(q) <= maxDepth}

\* ... parent_id = ending_node AND depth <= max_depth
AllUpwardRows(E, start, end, maxDepth) ==
    {q \in UpRows(E, start) : Last(q).parent = end /\ Len(q) <= maxDepth}

\* the rows in any order at all
OrderByDepth_unordered(rows) ==
    {s \in [1..Cardinality(rows) -> rows] :
        \A i, j \in 1..Cardinality(rows) : s[i] = s[j] => i = j}

\* ORDER BY depth ASC: the orders PostgreSQL may return the rows in (rows of
\* equal depth come in any order)
OrderByDepth(rows) ==
    {s \in [1..Cardinality(rows) -> rows] :
        /\ \A i, j \in 1..Cardinality(rows) : s[i] = s[j] => i = j
        /\ \A i, j \in 1..Cardinality(rows) : i < j => Len(s[i]) <= Len(s[j])}

\* LIMIT max_results, when max_results is not None
Limit(s, maxResults) ==
    IF maxResults = NoneArg THEN s ELSE SubSeq(s, 1, Min(maxResults, Len(s)))

\* AllDownwardPathsQuery.path_lists: the lists it may return
AllDownwardPathsQuery(E, start, end, maxDepth, maxResults) ==
    {Limit([i \in 1..Len(s) |-> Append(DownPath(s[i]), end)], maxResults) :
        s \in OrderByDepth(AllDownwardRows(E, start, end, maxDepth))}

\* AllUpwardPathsQuery.path_lists: the lists it may return
AllUpwardPathsQuery(E, start, end, maxDepth, maxResults) ==
    {Limit([i \in 1..Len(s) |-> Append(UpPath(s[i]), end)], maxResults) :
        s \in OrderByDepth(AllUpwardRows(E, start, end, maxDepth))}

\* Node.all_paths_as_pk_lists: the lists it may return
all_paths_as_pk_lists(E, start, end, directional, maxDepth, maxResults) ==
    IF start = end THEN {<< <<start>> >>}
    ELSE UNION {IF paths = <<>> /\ ~directional
                THEN AllUpwardPathsQuery(E, start, end, maxDepth, maxResults)
                ELSE {paths}
                : paths \in AllDownwardPathsQuery(E, start, end, maxDepth, maxResults)}

\* Node.all_paths_as_pk_lists: the queries it executes, in order
all_paths_queries(start, end, directional, paths) ==
    IF start = end THEN <<>>
    ELSE IF paths = <<>> /\ ~directional
         THEN <<"AllDownwardPathsQuery", "AllUpwardPathsQuery">>
         ELSE <<"AllDownwardPathsQuery">>

\* ---- WeightedDownwardPathQuery / WeightedUpwardPathQuery -----------------
\* the total_weight column of a row: the weights of its edges, summed
RECURSIVE TotalWeight(_)
TotalWeight(r) ==
    IF r = <<>> THEN 0
    ELSE TotalWeight(SubSeq(r, 1, Len(r) - 1)) + Last(r).weight

\* ORDER BY depth ASC LIMIT 1 in place of ORDER BY total_weight ASC LIMIT 1
LightestRows_fewestHops(rows) ==
    {r \in rows : \A q \in rows : Len(r) <= Len(q)}

\* ORDER BY total_weight ASC LIMIT 1: the rows PostgreSQL may return
LightestRows(rows) ==
    {r \in rows : \A q \in rows : TotalWeight(r) <= TotalWeight(q)}

\* WeightedPathResult(nodes, total_weight)
WeightedPathResult(pks, total_weight) ==
    [nodes |-> pks, total_weight |-> total_weight]

\* WeightedDownwardPathQuery.result: the results it may return; the empty
\* set stands for None
WeightedDownwardPathQuery(E, start, end, maxDepth) ==
    {WeightedPathResult(Append(DownPath(r), end), TotalWeight(r)) :
        r \in LightestRows(AllDownwardRows(E, start, end, maxDepth))}

\* WeightedUpwardPathQuery.result
WeightedUpwardPathQuery(E, start, end, maxDepth) ==
    {WeightedPathResult(Append(UpPath(r), end), TotalWeight(r)) :
        r \in LightestRows(AllUpwardRows(E, start, end, maxDepth))}

\* Node.weighted_path_raw: the results it may return; the empty set stands
\* for NodeNotReachableException
weighted_path_raw(E, start, end, directional, maxDepth) ==
    IF start = end THEN {WeightedPathResult(<<start>>, 0)}
    ELSE LET down == WeightedDownwardPathQuery(E, start, end, maxDepth)
         IN  IF down = {} /\ ~directional
             THEN WeightedUpwardPathQuery(E, start, end, maxDepth)
             ELSE down

\* Node.weighted_path: (ordered_queryset_from_pks(result.nodes), total_weight)
weighted_path(E, start, end, directional, maxDepth) ==
    {WeightedPathResult(_ordered_filter(r.nodes), r.total_weight) :
        r \in weighted_path_raw(E, start, end, directional, maxDepth)}

\* ---- CriticalPathQuery -------------------------------------------------------
\* roots: the rows of the node table no edge row points to as its child
CriticalRoots(N, E) == {n \in N : ~\E e \in E : e.child = n}

\* the rows (path, total_weight) of traverse from depth k on, given those of
\* depth k: a row is extended over every edge that leaves its last node for
\* a node not on its path, while k < max_depth; the weight added is the edge's
\* weight column, or 1 when no weight_field is given. Two equal rows (over
\* parallel edges of equal weight) are one row here: what LIMIT 1 may return
\* is the same.
RECURSIVE CriticalRows(_, _, _, _, _)
CriticalRows(E, level, k, maxDepth, weighted) ==
    IF level = {} THEN {}
    ELSE level \cup
         (IF k < maxDepth
          THEN CriticalRows(E,
                   {[path |-> Append(x[1].path, x[2].child),
                     total_weight |-> x[1].total_weight +
                                      (IF weighted THEN x[2].weight ELSE 1)] :
                       x \in {y \in level \X E :
                                 /\ y[2].parent = Last(y[1].path)
                                 /\ y[2].child \notin Range(y[1].path)}},
                   k + 1, maxDepth, weighted)
          ELSE {})

\* leaf_paths: the rows whose last node is the parent of no edge row
LeafPaths(E, rows) == {t \in rows : ~\E e \in E : e.parent = Last(t.path)}

\* ORDER BY depth DESC LIMIT 1 in place of ORDER BY total_weight DESC LIMIT 1
BestPath_mostHops(rows) ==
    {t \in rows : \A q \in rows : Len(q.path) <= Len(t.path)}

\* best_path, ORDER BY total_weight DESC LIMIT 1: the rows PostgreSQL may
\* return
BestPath(rows) ==
    {t \in rows : \A q \in rows : q.total_weight <= t.total_weight}

\* CriticalPathQuery.result: the (path, total_weight) pairs it may return,
\* ([], 0) when the query has no row
CriticalPathQuery(N, E, weighted, maxDepth) ==
    LET roots == {[path |-> <<n>>, total_weight |-> 0] : n \in CriticalRoots(N, E)}
        best  == BestPath(LeafPaths(E, CriticalRows(E, roots, 0, maxDepth, weighted)))
    IN  IF best = {} THEN {[path |-> <<>>, total_weight |-> 0]} ELSE best

\* NodeManager.critical_path: (self.none(), 0) for an empty path, else
\* (_ordered_filter(self, "pk", path_pks), total_weight)
critical_path(N, E, weighted, maxDepth) ==
    {IF r.path = <<>> THEN [path |-> <<>>, total_weight |-> 0]
     ELSE [path |-> _ordered_filter(r.path), total_weight |-> r.total_weight] :
        r \in CriticalPathQuery(N, E, weighted, maxDepth)}

\* ---- AncestorQuery / DescendantQuery with filter clauses -------------------
\* where_clauses_part_1 of AncestorQuery, on a row of first LEFT OUTER JOIN
\* second ON first.parent_id = second.child_id: the limiting clause is
\* second.edge_set_id = fk, which no row with a NULL second satisfies
Ancestor_where_clauses_part_1(E, first, f) ==
    /\ f.limiting_edges_set_fk # NoneArg =>
          \E second \in E : /\ first.parent = second.child
                            /\ second.edge_set = f.limiting_edges_set_fk
    /\ NodeClauses(first.parent, f)
    /\ EdgeClauses(first, f)

\* where_clauses_part_2 of AncestorQuery, on the edge row joined to traverse
Ancestor_where_clauses_part_2(e, f) ==
    /\ f.limiting_edges_set_fk # NoneArg => e.edge_set = f.limiting_edges_set_fk
    /\ NodeClauses(e.parent, f)
    /\ EdgeClauses(e, f)

\* where_clauses_part_1 of DescendantQuery: second is joined
\* ON first.child_id = second.parent_id
Descendant_where_clauses_part_1(E, first, f) ==
    /\ f.limiting_edges_set_fk # NoneArg =>
          \E second \in E : /\ first.child = second.parent
                            /\ second.edge_set = f.limiting_edges_set_fk
    /\ NodeClauses(first.child, f)
    /\ EdgeClauses(first, f)

Descendant_where_clauses_part_2(e, f) ==
    /\ f.limiting_edges_set_fk # NoneArg => e.edge_set = f.limiting_edges_set_fk
    /\ NodeClauses(e.child, f)
    /\ EdgeClauses(e, f)

\* the rows of depth k of traverse under the clauses
RECURSIVE AncestorLevelFiltered(_, _, _, _)
AncestorLevelFiltered(E, pk, k, f) ==
    IF k = 1
    THEN {e.parent : e \in {first \in E : /\ first.child = pk
                                          /\ Ancestor_where_clauses_part_1(E, first, f)}}
    ELSE LET prev == AncestorLevelFiltered(E, pk, k - 1, f)
         IN  {e.parent : e \in {x \in E : /\ x.child \in prev
                                          /\ Ancestor_where_clauses_part_2(x, f)}}

RECURSIVE DescendantLevelFiltered(_, _, _, _)
DescendantLevelFiltered(E, pk, k, f) ==
    IF k = 1
    THEN {e.child : e \in {first \in E : /\ first.parent = pk
                                         /\ Descendant_where_clauses_part_1(E, first, f)}}
    ELSE LET prev == DescendantLevelFiltered(E, pk, k - 1, f)
         IN  {e.child : e \in {x \in E : /\ x.parent \in prev
                                         /\ Descendant_where_clauses_part_2(x, f)}}

\* AncestorQuery.raw_queryset with its clauses
AncestorQueryFiltered(E, pk, maxDepth, f) ==
    LET K      == Min(maxDepth, NumNodes)
        ids    == UNION {AncestorLevelFiltered(E, pk, k, f) : k \in 1..K}
        maxd   == [n \in ids |-> CHOOSE k \in 1..K :
                      /\ n \in AncestorLevelFiltered(E, pk, k, f)
                      /\ \A j \in (k + 1)..K : n \notin AncestorLevelFiltered(E, pk, j, f)]
        key    == [n \in ids |-> (K - maxd[n]) * (NumNodes + 1) + n]
    IN  OrderBy(ids, key)

\* DescendantQuery.raw_queryset with its clauses
DescendantQueryFiltered(E, pk, maxDepth, f) ==
    LET K      == Min(maxDepth, NumNodes)
        ids    == UNION {DescendantLevelFiltered(E, pk, k, f) : k \in 1..K}
        maxd   == [n \in ids |-> CHOOSE k \in 1..K :
                      /\ n \in DescendantLevelFiltered(E, pk, k, f)
                      /\ \A j \in (k + 1)..K : n \notin DescendantLevelFiltered(E, pk, j, f)]
        key    == [n \in ids |-> maxd[n] * (NumNodes + 1) + n]
    IN  OrderBy(ids, key)

\* Node._resolve_edge_type: kwargs.setdefault("limiting_edges_set_fk", edge_type)
_resolve_edge_type(edge_type, f) ==
    IF edge_type # NoneArg /\ f.limiting_edges_set_fk = NoneArg
    THEN [f EXCEPT !.limiting_edges_set_fk = edge_type]
    ELSE f

\* Node.ancestors(edge_type=..., **f)
ancestors_filtered(E, pk, maxDepth, edge_type, f) ==
    _ordered_filter(AncestorQueryFiltered(E, pk, maxDepth, _resolve_edge_type(edge_type, f)))

\* Node.descendants(edge_type=..., **f)
descendants_filtered(E, pk, maxDepth, edge_type, f) ==
    _ordered_filter(DescendantQueryFiltered(E, pk, maxDepth, _resolve_edge_type(edge_type, f)))

\* ---- DownwardPathQuery / UpwardPathQuery with filter clauses ---------------
\* both parts of the path queries get the same clauses, all on first: a row
\* is built from the edges that satisfy them
DownwardPathClauses(first, f) ==
    /\ f.limiting_edges_set_fk # NoneArg => first.edge_set = f.limiting_edges_set_fk
    /\ NodeClauses(first.child, f)
    /\ EdgeClauses(first, f)

UpwardPathClauses(first, f) ==
    /\ f.limiting_edges_set_fk # NoneArg => first.edge_set = f.limiting_edges_set_fk
    /\ NodeClauses(first.parent, f)
    /\ EdgeClauses(first, f)

\* Node.path_raw(ending_node, directional, **f)
path_raw_filtered(E, start, end, directional, maxDepth, f) ==
    IF start = end THEN <<start>>
    ELSE LET down == DownwardPathQuery({e \in E : DownwardPathClauses(e, f)},
                                       start, end, maxDepth)
         IN  IF down = <<>> /\ ~directional
             THEN UpwardPathQuery({e \in E : UpwardPathClauses(e, f)},
                                  start, end, maxDepth)
             ELSE down

\* Node.path(ending_node, directional, **f)
path_filtered(E, start, end, directional, maxDepth, f) ==
    IF start = end THEN _ordered_filter(<<start>>)
    ELSE _ordered_filter(path_raw_filtered(E, start, end, directional, maxDepth, f))

\* ---- ConnectedGraphQuery -----------------------------------------------------
\* CASE WHEN edge.child_id = traverse.pk THEN edge.parent_id ELSE edge.child_id
OtherEnd(e, n) == IF e.child = n THEN e.parent ELSE e.child

\* where_clauses_part_2 of ConnectedGraphQuery; the query has no clause on
\* its first part
ConnectedClauses(e, n, f) ==
    /\ f.limiting_edges_set_fk # NoneArg => e.edge_set = f.limiting_edges_set_fk
    /\ NodeClauses(OtherEnd(e, n), f)
    /\ EdgeClauses(e, f)

\* the rows of traverse, each the path column it carries, from the rows of
\* one length on: a row is extended over every edge at its last node, in
\* either direction, to a node not on its path while
\* array_length(path, 1) < max_depth
RECURSIVE ConnectedRows(_, _, _, _)
ConnectedRows(E, level, maxDepth, f) ==
    IF level = {} THEN {}
    ELSE level \cup
         ConnectedRows(E,
             {Append(x[1], OtherEnd(x[2], Last(x[1]))) :
                 x \in {y \in level \X E :
                           /\ (y[2].parent = Last(y[1]) \/ y[2].child = Last(y[1]))
                           /\ OtherEnd(y[2], Last(y[1])) \notin Range(y[1])
                           /\ Len(y[1]) < maxDepth
                           /\ ConnectedClauses(y[2], Last(y[1]), f)}},
             maxDepth, f)

\* SELECT DISTINCT pk FROM traverse: the pks, in no order
ConnectedGraphQuery(E, pk, maxDepth, f) ==
    {Last(r) : r \in ConnectedRows(E, {<<pk>>}, maxDepth, f)}

\* the orders a query without ORDER BY may return its rows in
Orderings(S) ==
    {s \in [1..Cardinality(S) -> S] :
        \A i, j \in 1..Cardinality(S) : s[i] = s[j] => i = j}

\* Node.connected_graph: the lists it may return
connected_graph(E, pk, maxDepth, f) ==
    {_ordered_filter(s) : s \in Orderings(ConnectedGraphQuery(E, pk, maxDepth, f))}

\* NodeManager.connected_components: the lists of components it may return,
\* one for every choice of next(iter(all_pks)); start_node.connected_graph()
\* is called without arguments, so the setting bounds it
RECURSIVE connected_components(_, _, _)
connected_components(all_pks, E, setting) ==
    IF all_pks = {} THEN {<<>>}
    ELSE UNION {LET component_pks == ConnectedGraphQuery(E, start_pk, setting, NoFilters)
                                         \cup {start_pk}
                IN  {<<component_pks>> \o rest :
                        rest \in connected_components(all_pks \ component_pks, E, setting)}
                : start_pk \in all_pks}

\* ---- LCAQuery --------------------------------------------------------------
\* ancestors_a / ancestors_b: the node itself at depth 0, then the parents of
\* the rows of depth k - 1 while k - 1 < max_depth. A node that is reached at
\* all is reached within NumNodes steps.
AncestorsOrSelf(E, pk, maxDepth) ==
    {pk} \cup UNION {AncestorLevel(E, pk, k) : k \in 1..Min(maxDepth, NumNodes)}

\* LCAQuery keeping the common ancestors that have no common parent
LCAQuery_highest(E, a, b, maxDepth) ==
    LET common == AncestorsOrSelf(E, a, maxDepth) \cap AncestorsOrSelf(E, b, maxDepth)
        lowest == {c \in common :
                      ~\E e \in E : e.child = c /\ e.parent \in common}
    IN  OrderBy(lowest, [n \in lowest |-> n])

\* common, then the rows of common with no edge to a child in common,
\* ORDER BY pk ASC
LCAQuery(E, a, b, maxDepth) ==
    LET common == AncestorsOrSelf(E, a, maxDepth) \cap AncestorsOrSelf(E, b, maxDepth)
        lowest == {c \in common :
                      ~\E e \in E : e.parent = c /\ e.child \in common}
    IN  OrderBy(lowest, [n \in lowest |-> n])

\* Node.lowest_common_ancestors
lowest_common_ancestors(E, a, b, maxDepth) ==
    _ordered_filter(LCAQuery(E, a, b, maxDepth))

\* ---- TopologicalSortQuery ---------------------------------------------------
\* the rows (pk, depth) of traverse from depth k on, given the pks of depth
\* k: the children of the rows of depth k are added while k < max_depth
RECURSIVE TopologicalRows(_, _, _, _)
TopologicalRows(E, level, k, maxDepth) ==
    IF level = {} THEN {}
    ELSE {<<n, k>> : n \in level} \cup
         (IF k < maxDepth
          THEN TopologicalRows(E, {e.child : e \in {f \in E : f.parent \in level}},
                               k + 1, maxDepth)
          ELSE {})

\* the parents with no incoming edge, at depth 0
TopologicalRoots(E) ==
    {e.parent : e \in {f \in E : ~\E g \in E : g.child = f.parent}}

\* WHERE depth <= max_depth GROUP BY pk ORDER BY MAX(depth) ASC, pk ASC
TopologicalSortQuery(E, maxDepth) ==
    LET rows == {r \in TopologicalRows(E, TopologicalRoots(E), 0, maxDepth) :
                    r[2] <= maxDepth}
        ids  == {r[1] : r \in rows}
        maxd == [n \in ids |-> CHOOSE k \in 0..maxDepth :
                    /\ <<n, k>> \in rows
                    /\ \A r \in rows : r[1] = n => r[2] <= k]
    IN  OrderBy(ids, [n \in ids |-> maxd[n] * (NumNodes + 1) + n])

\* NodeManager.topological_sort: island_pks + cte_pks
topological_sort(N, E, maxDepth) ==
    LET cte_pks    == TopologicalSortQuery(E, maxDepth)
        islands    == N \ Range(cte_pks)
        island_pks == OrderBy(islands, [n \in islands |-> n])
    IN  _ordered_filter(island_pks \o cte_pks)

\* ---- TransitiveReductionQuery -----------------------------------------------
\* indirect_reachable that also takes the rows of depth 1
IndirectReachable_direct(E, maxDepth) ==
    {<<r[1].parent, Last(r).child>> :
        r \in {q \in UNION {DownRows(E, e.parent) : e \in E} :
                  Len(q) >= 1 /\ Len(q) <= maxDepth}}

\* indirect_reachable: (start_node, current_node) of the rows of
\* all_descendants with depth >= 2; the rows have depth <= max_depth
IndirectReachable(E, maxDepth) ==
    {<<r[1].parent, Last(r).child>> :
        r \in {q \in UNION {DownRows(E, e.parent) : e \in E} :
                  Len(q) >= 2 /\ Len(q) <= maxDepth}}

\* the query returning the first redundant edge only
TransitiveReductionQuery_first(E, maxDepth) ==
    LET found == {e \in E : <<e.parent, e.child>> \in IndirectReachable(E, maxDepth)}
    IN  IF found = {} THEN {}
        ELSE {(CHOOSE e \in found : \A f \in found : e.id <= f.id).id}

\* SELECT e.id FROM edge e INNER JOIN indirect_reachable ir ON ...
TransitiveReductionQuery(E, maxDepth) ==
    {e.id : e \in {f \in E : <<f.parent, f.child>> \in IndirectReachable(E, maxDepth)}}

\* ---- mutation guards ----------------------------------------------------
\* circular_checker that looks at the parent's direct parents only
circular_checker_shallow(E, setting, parent, child) ==
    IF AncestorDiverges(E, parent) THEN "diverges"
    ELSE IF child \in Range(self_and_ancestors(E, parent, 1))
         THEN "ValidationError"
         ELSE "ok"

\* Node.circular_checker: child in parent.self_and_ancestors()
circular_checker(E, setting, parent, child) ==
    IF AncestorDiverges(E, parent) THEN "diverges"
    ELSE IF child \in Range(self_and_ancestors(E, parent, setting))
         THEN "ValidationError"
         ELSE "ok"

\* Node.duplicate_edge_checker: child in parent.self_and_descendants()
duplicate_edge_checker(E, setting, parent, child) ==
    IF DescendantDiverges(E, parent) THEN "diverges"
    ELSE IF child \in Range(self_and_descendants(E, parent, setting))
         THEN "ValidationError"
         ELSE "ok"

\* Edge.save up to the point where the row is written: the guards in order
SaveGuards(E, setting, parent, child, dcc, ade) ==
    LET circ == IF dcc THEN "ok" ELSE circular_checker(E, setting, parent, child)
        dup  == IF ade THEN "ok" ELSE duplicate_edge_checker(E, setting, parent, child)
    IN  IF circ # "ok" THEN circ ELSE dup

\* a row of the edge table; weight is the test application's
\* FloatField(default=1.0), the column the weighted queries are given, and
\* edge_set its nullable ForeignKey to EdgeSet, the edge's categorical tag
NewEdge(id, parent, child) ==
    [id |-> id, parent |-> parent, child |-> child, weight |-> DefaultWeight,
     edge_set |-> NoEdgeSet]

\* ---- calls and their results --------------------------------------------
\* A call: its name, the parent/start node p, the child/end node c, the edge
\* id e, the inserted node n, and the keyword arguments. For insert_node dcc
\* and ade carry clone_to_rootside and clone_to_leafside.
Call(name, p, c, e, n, dcc, ade, kw, md, dir) ==
    [name |-> name, p |-> p, c |-> c, e |-> e, n |-> n, dcc |-> dcc, ade |-> ade,
     kw |-> kw, md |-> md, directional |-> dir, filters |-> NoFilters]

\* queries: the query classes the call executed, in order (what the
\* _dag_query_collector of debug.py records)
Result(outcome, pks, n) ==
    [outcome |-> outcome, pks |-> pks, n |-> n, queries |-> <<>>]

NoCall == Call("none", 0, 0, 0, 0, FALSE, TRUE, FALSE, NoneArg, TRUE)

Idle == [pc |-> "idle", parent |-> 0, child |-> 0, seen |-> {}]

\* ---- Node.add_child ------------------------------------------------------
\* kw: the caller passed allow_redundant_edges, which add_child does not pop,
\* so it reaches the edge model's constructor and raises TypeError.
add_child(name, p, c, dcc, ade, kw) ==
    LET guard == IF kw THEN "TypeError"
                 ELSE SaveGuards(edges, maxDepthSetting, p, c, dcc, ade)
    IN  /\ nextId <= MaxEdgeId
        /\ op' = Call(name, p, c, 0, 0, dcc, ade, kw, NoneArg, TRUE)
        /\ IF guard = "ok"
           THEN /\ edges' = edges \cup {NewEdge(nextId, p, c)}
                /\ nextId' = nextId + 1
                /\ signals' = <<"pre_edge_create", "INSERT", "post_edge_create">>
                /\ ret' = Result("ok", <<>>, 0)
           ELSE /\ UNCHANGED <<edges, nextId>>
                /\ signals' = <<>>
                /\ ret' = Result(guard, <<>>, 0)
        /\ UNCHANGED <<maxDepthSetting, writers, nodes>>

AddChild(p, c, dcc, ade, kw) == add_child("add_child", p, c, dcc, ade, kw)

\* Node.add_parent: parent.add_child(self, **kwargs)
AddParent(c, p, dcc, ade, kw) == add_child("add_parent", p, c, dcc, ade, kw)

\* ---- Edge.save called directly ------------------------------------------
\* A new instance (is_new): the guards, then the row and both create signals.
EdgeSaveNew(p, c, dcc, ade) ==
    LET guard == SaveGuards(edges, maxDepthSetting, p, c, dcc, ade)
    IN  /\ nextId <= MaxEdgeId
        /\ op' = Call("edge_save", p, c, 0, 0, dcc, ade, FALSE, NoneArg, TRUE)
        /\ IF guard = "ok"
           THEN /\ edges' = edges \cup {NewEdge(nextId, p, c)}
                /\ nextId' = nextId + 1
                /\ signals' = <<"pre_edge_create", "INSERT", "post_edge_create">>
                /\ ret' = Result("ok", <<>>, 0)
           ELSE /\ UNCHANGED <<edges, nextId>>
                /\ signals' = <<>>
                /\ ret' = Result(guard, <<>>, 0)
        /\ UNCHANGED <<maxDepthSetting, writers, nodes>>

\* An instance already stored (not is_new), its endpoints possibly reassigned:
\* the guards, then the row is updated in place; no signal.
EdgeResave(e, p, c, dcc, ade) ==
    LET guard == SaveGuards(edges, maxDepthSetting, p, c, dcc, ade)
    IN  /\ e \in edges
        /\ op' = Call("edge_resave", p, c, e.id, 0, dcc, ade, FALSE, NoneArg, TRUE)
        /\ IF guard = "ok"
           THEN /\ edges' = (edges \ {e}) \cup {NewEdge(e.id, p, c)}
                /\ signals' = <<"UPDATE">>
                /\ ret' = Result("ok", <<>>, 0)
           ELSE /\ UNCHANGED edges
                /\ signals' = <<>>
                /\ ret' = Result(guard, <<>>, 0)
        /\ UNCHANGED <<nextId, maxDepthSetting, writers, nodes>>

\* Edge.delete
EdgeDelete(e) ==
    /\ e \in edges
    /\ op' = Call("edge_delete", e.parent, e.child, e.id, 0, FALSE, TRUE, FALSE, NoneArg, TRUE)
    /\ edges' = edges \ {e}
    /\ signals' = <<"pre_edge_delete", "DELETE", "post_edge_delete">>
    /\ ret' = Result("ok", <<>>, 0)
    /\ UNCHANGED <<nextId, maxDepthSetting, writers, nodes>>

\* ---- Node.remove_child / Node.remove_parent (delete_node=False) ----------
RemoveEdges(name, p, c, gone) ==
    /\ op' = Call(name, p, c, 0, 0, FALSE, TRUE, FALSE, NoneArg, TRUE)
    /\ IF c # 0 /\ p # 0 /\ gone = {}
       THEN /\ UNCHANGED edges
            /\ signals' = <<>>
       ELSE /\ edges' = edges \ gone
            /\ signals' = <<"pre_edge_delete", "DELETE", "post_edge_delete">>
    /\ ret' = Result("ok", <<>>, Cardinality(gone))
    /\ UNCHANGED <<nextId, maxDepthSetting, writers, nodes>>

\* remove_child deleting one of the edges from p to c only
RemoveChild_oneEdge(p, c) ==
    LET all == {e \in edges : e.parent = p /\ (c = 0 \/ e.child = c)}
    IN  RemoveEdges("remove_child", p, c,
                    {e \in all : \A f \in all : e.id <= f.id})

\* p.remove_child(c); c = 0 stands for child=None (all children)
RemoveChild(p, c) ==
    RemoveEdges("remove_child", p, c,
                {e \in edges : e.parent = p /\ (c = 0 \/ e.child = c)})

\* c.remove_parent(p); p = 0 stands for parent=None (all parents)
RemoveParent(c, p) ==
    RemoveEdges("remove_parent", p, c,
                {e \in edges : e.child = c /\ (p = 0 \/ e.parent = p)})

\* ---- EdgeManager.insert_node ---------------------------------------------
\* Inside transaction.atomic(): the root-side edge, the leaf-side edge, then
\* the deletion of the original. An exception rolls the rows back; the
\* signals already sent stay sent and the id sequence is not rolled back.
\* A cloned edge is a deepcopy of a stored instance, so it is not is_new and
\* is saved without create signals.
CreateSignals(cloned) ==
    IF cloned THEN <<"INSERT">> ELSE <<"pre_edge_create", "INSERT", "post_edge_create">>

\* insert_node without the enclosing transaction: a root-side edge already
\* saved stays when the leaf-side save raises
insert_node_unwrapped(e, n, cloneRoot, cloneLeaf) ==
    LET P      == e.parent
        C      == e.child
        g1     == SaveGuards(edges, maxDepthSetting, P, n, FALSE, TRUE)
        root   == NewEdge(nextId, P, n)
        E1     == edges \cup {root}
        g2     == SaveGuards(E1, maxDepthSetting, n, C, FALSE, TRUE)
        leaf   == NewEdge(nextId + 1, n, C)
    IN  /\ e \in edges
        /\ nextId <= MaxEdgeId
        /\ (g1 = "ok" /\ g2 = "ok") => nextId + 1 <= MaxEdgeId
        /\ op' = Call("insert_node", P, C, e.id, n, cloneRoot, cloneLeaf, FALSE, NoneArg, TRUE)
        /\ IF g1 # "ok"
           THEN /\ UNCHANGED <<edges, nextId>>
                /\ signals' = <<>>
                /\ ret' = Result(g1, <<>>, 1)
           ELSE IF g2 # "ok"
           THEN /\ edges' = E1
                /\ nextId' = nextId + 1
                /\ signals' = CreateSignals(cloneRoot)
                /\ ret' = Result(g2, <<>>, 2)
           ELSE /\ edges' = (edges \ {e}) \cup {root, leaf}
                /\ nextId' = nextId + 2
                /\ signals' = CreateSignals(cloneRoot) \o CreateSignals(cloneLeaf)
                                \o <<"pre_edge_delete", "DELETE", "post_edge_delete">>
                /\ ret' = Result("ok", <<>>, 0)
        /\ UNCHANGED <<maxDepthSetting, writers, nodes>>

insert_node(e, n, cloneRoot, cloneLeaf) ==
    LET P      == e.parent
        C      == e.child
        g1     == SaveGuards(edges, maxDepthSetting, P, n, FALSE, TRUE)
        root   == NewEdge(nextId, P, n)
        E1     == edges \cup {root}
        g2     == SaveGuards(E1, maxDepthSetting, n, C, FALSE, TRUE)
        leaf   == NewEdge(nextId + 1, n, C)
    IN  /\ e \in edges
        /\ nextId <= MaxEdgeId
        /\ (g1 = "ok" /\ g2 = "ok") => nextId + 1 <= MaxEdgeId
        /\ op' = Call("insert_node", P, C, e.id, n, cloneRoot, cloneLeaf, FALSE, NoneArg, TRUE)
        /\ IF g1 # "ok"
           THEN /\ UNCHANGED <<edges, nextId>>
                /\ signals' = <<>>
                /\ ret' = Result(g1, <<>>, 1)
           ELSE IF g2 # "ok"
           THEN /\ UNCHANGED edges
                /\ nextId' = nextId + 1
                /\ signals' = CreateSignals(cloneRoot)
                /\ ret' = Result(g2, <<>>, 2)
           ELSE /\ edges' = (edges \ {e}) \cup {root, leaf}
                /\ nextId' = nextId + 2
                /\ signals' = CreateSignals(cloneRoot) \o CreateSignals(cloneLeaf)
                                \o <<"pre_edge_delete", "DELETE", "post_edge_delete">>
                /\ ret' = Result("ok", <<>>, 0)
        /\ UNCHANGED <<maxDepthSetting, writers, nodes>>

InsertNode(e, n, cloneRoot, cloneLeaf) == insert_node(e, n, cloneRoot, cloneLeaf)

\* ---- single-writer mutations with the circular check enabled -------------
Init ==
    /\ nodes = Nodes
    /\ edges = {}
    /\ nextId = 1
    /\ maxDepthSetting \in {SmallMaxDepth, DefaultMaxDepth}
    /\ op = NoCall
    /\ ret = Result("none", <<>>, 0)
    /\ signals = <<>>
    /\ writers = [w \in 1..2 |-> Idle]

Next ==
    \/ \E p, c \in Nodes, ade, kw \in BOOLEAN : AddChild(p, c, FALSE, ade, kw)
    \/ \E p, c \in Nodes, kw \in BOOLEAN : AddParent(c, p, FALSE, TRUE, kw)
    \/ \E p, c \in Nodes : EdgeSaveNew(p, c, FALSE, TRUE)
    \/ \E e \in edges, p, c \in Nodes : EdgeResave(e, p, c, FALSE, TRUE)
    \/ \E e \in edges : EdgeDelete(e)
    \/ \E e \in edges, n \in Nodes, cr, cl \in BOOLEAN : InsertNode(e, n, cr, cl)
    \/ \E p \in Nodes, c \in Nodes \cup {0} : RemoveChild(p, c)
    \/ \E c \in Nodes, p \in Nodes \cup {0} : RemoveParent(c, p)

Spec == Init /\ [][Next]_vars

\* ---- traversal calls ------------------------------------------------------
\* n.ancestors(max_depth=md)
Ancestors(n, md) ==
    /\ op' = Call("ancestors", n, 0, 0, 0, FALSE, TRUE, FALSE, md, TRUE)
    /\ ret' = IF AncestorDiverges(edges, n) THEN Result("diverges", <<>>, 0)
              ELSE Result("ok", ancestors(edges, n, EffectiveMaxDepth(md, maxDepthSetting)), 0)
    /\ signals' = <<>>
    /\ UNCHANGED <<edges, nextId, maxDepthSetting, writers, nodes>>

\* n.descendants(max_depth=md)
Descendants(n, md) ==
    /\ op' = Call("descendants", n, 0, 0, 0, FALSE, TRUE, FALSE, md, TRUE)
    /\ ret' = IF DescendantDiverges(edges, n) THEN Result("diverges", <<>>, 0)
              ELSE Result("ok", descendants(edges, n, EffectiveMaxDepth(md, maxDepthSetting)), 0)
    /\ signals' = <<>>
    /\ UNCHANGED <<edges, nextId, maxDepthSetting, writers, nodes>>

\* n.node_depth()
NodeDepth(n) ==
    /\ op' = Call("node_depth", n, 0, 0, 0, FALSE, TRUE, FALSE, NoneArg, TRUE)
    /\ ret' = IF AncestorDiverges(edges, n) THEN Result("diverges", <<>>, 0)
              ELSE Result("ok", <<>>, node_depth(edges, n))
    /\ signals' = <<>>
    /\ UNCHANGED <<edges, nextId, maxDepthSetting, writers, nodes>>

\* a.path(b, directional, max_depth=md) and a.distance(b, ...) with the same
\* arguments on the same store
Path(a, b, directional, md) ==
    LET d   == EffectiveMaxDepth(md, maxDepthSetting)
        raw == path_raw(edges, a, b, directional, d)
    IN  /\ op' = Call("path", a, b, 0, 0, FALSE, TRUE, FALSE, md, directional)
        /\ ret' = [(IF raw = <<>> THEN Result("NodeNotReachableException", <<>>, 0)
                    ELSE Result("ok", path(edges, a, b, directional, d),
                                distance(edges, a, b, directional, d)))
                   EXCEPT !.queries = path_raw_queries(edges, a, b, directional, d)]
        /\ signals' = <<>>
        /\ UNCHANGED <<edges, nextId, maxDepthSetting, writers, nodes>>

\* a.path_exists(b, directional, max_depth=md)
PathExists(a, b, directional, md) ==
    LET d == EffectiveMaxDepth(md, maxDepthSetting)
    IN  /\ op' = Call("path_exists", a, b, 0, 0, FALSE, TRUE, FALSE, md, directional)
        /\ ret' = [Result(IF path_exists(edges, a, b, directional, d)
                          THEN "True" ELSE "False", <<>>, 0)
                   EXCEPT !.queries = path_raw_queries(edges, a, b, directional, d)]
        /\ signals' = <<>>
        /\ UNCHANGED <<edges, nextId, maxDepthSetting, writers, nodes>>

DepthArgs == {NoneArg} \cup 0..MaxDepthArg

\* ---- traversals over stores built with or without the circular check -----
InitTraverse ==
    /\ nodes = Nodes
    /\ edges = {}
    /\ nextId = 1
    /\ maxDepthSetting = DefaultMaxDepth
    /\ op = NoCall
    /\ ret = Result("none", <<>>, 0)
    /\ signals = <<>>
    /\ writers = [w \in 1..2 |-> Idle]

\* A traversal changes nothing but op, ret and signals, which every call
\* overwrites: the states that follow a traversal are the states that follow
\* the store it ran on, so each run is explored as mutations, then one
\* traversal.
Traversals == {"ancestors", "descendants", "node_depth", "path", "path_exists",
               "all_paths_as_pk_lists", "weighted_path",
               "lowest_common_ancestors", "topological_sort",
               "transitive_reduction", "critical_path", "connected_graph",
               "connected_components", "self_and_ancestors",
               "ancestors_and_self", "self_and_descendants",
               "descendants_and_self", "is_ancestor_of", "is_descendant_of"}

Building == op.name \notin Traversals

NextTraverse ==
    \/ \E p, c \in Nodes, dcc \in BOOLEAN : Building /\ AddChild(p, c, dcc, TRUE, FALSE)
    \/ \E p, c \in Nodes : Building /\ RemoveChild(p, c)
    \/ \E n \in Nodes, md \in DepthArgs : Building /\ Ancestors(n, md)
    \/ \E n \in Nodes, md \in DepthArgs : Building /\ Descendants(n, md)
    \/ \E n \in Nodes : Building /\ NodeDepth(n)
    \/ \E a, b \in Nodes, dir \in BOOLEAN, md \in DepthArgs : Building /\ Path(a, b, dir, md)
    \/ \E a, b \in Nodes, dir \in BOOLEAN, md \in DepthArgs : Building /\ PathExists(a, b, dir, md)

SpecTraverse == InitTraverse /\ [][NextTraverse]_vars

\* a.all_paths_as_pk_lists(b, directional, max_results=k, max_depth=md);
\* the call's n holds max_results
AllPaths(a, b, directional, md, k) ==
    LET d == EffectiveMaxDepth(md, maxDepthSetting)
    IN  /\ op' = Call("all_paths_as_pk_lists", a, b, 0, k, FALSE, TRUE, FALSE, md, directional)
        /\ \E paths \in all_paths_as_pk_lists(edges, a, b, directional, d, k) :
               \E down \in AllDownwardPathsQuery(edges, a, b, d, k) :
                   /\ (down # <<>> \/ directional) => paths = down
                   /\ ret' = [Result("ok", paths, Len(paths))
                              EXCEPT !.queries = all_paths_queries(a, b, directional, down)]
        /\ signals' = <<>>
        /\ UNCHANGED <<edges, nextId, maxDepthSetting, writers, nodes>>

ResultsArgs == {NoneArg} \cup 0..MaxResultsArg

\* ---- all-paths enumeration over stores built with or without the check ---
NextPaths ==
    \/ \E p, c \in Nodes, dcc \in BOOLEAN : Building /\ AddChild(p, c, dcc, TRUE, FALSE)
    \/ \E x, y \in Nodes, dir \in BOOLEAN, md \in DepthArgs, k \in ResultsArgs :
           Building /\ AllPaths(x, y, dir, md, k)

SpecPaths == InitTraverse /\ [][NextPaths]_vars

\* ---- weighted paths over stores whose edges carry weights ----------------
\* p.add_child(c, weight=w, disable_circular_check=dcc): add_child hands the
\* remaining keyword arguments to the edge model's constructor
AddChildUpTo(p, c, dcc, w, maxId) ==
    LET guard == SaveGuards(edges, maxDepthSetting, p, c, dcc, TRUE)
    IN  /\ nextId <= maxId
        /\ op' = Call("add_child", p, c, 0, w, dcc, TRUE, FALSE, NoneArg, TRUE)
        /\ IF guard = "ok"
           THEN /\ edges' = edges \cup {[NewEdge(nextId, p, c) EXCEPT !.weight = w]}
                /\ nextId' = nextId + 1
                /\ signals' = <<"pre_edge_create", "INSERT", "post_edge_create">>
                /\ ret' = Result("ok", <<>>, 0)
           ELSE /\ UNCHANGED <<edges, nextId>>
                /\ signals' = <<>>
                /\ ret' = Result(guard, <<>>, 0)
        /\ UNCHANGED <<maxDepthSetting, writers, nodes>>

AddChildWeighted(p, c, dcc, w) == AddChildUpTo(p, c, dcc, w, MaxEdgeId)

\* a.weighted_path(b, directional=directional, max_depth=md): ret.pks the
\* nodes, ret.n the total weight
WeightedPath(a, b, directional, md) ==
    LET d       == EffectiveMaxDepth(md, maxDepthSetting)
        results == weighted_path(edges, a, b, directional, d)
    IN  /\ op' = Call("weighted_path", a, b, 0, 0, FALSE, TRUE, FALSE, md, directional)
        /\ IF results = {}
           THEN ret' = Result("NodeNotReachableException", <<>>, 0)
           ELSE \E r \in results : ret' = Result("ok", r.nodes, r.total_weight)
        /\ signals' = <<>>
        /\ UNCHANGED <<edges, nextId, maxDepthSetting, writers, nodes>>

Weights == {DefaultWeight, MaxWeight}

NextWeighted ==
    \/ \E p, c \in Nodes, dcc \in BOOLEAN, w \in Weights :
           Building /\ AddChildWeighted(p, c, dcc, w)
    \/ \E x, y \in Nodes, dir \in BOOLEAN, md \in DepthArgs :
           Building /\ WeightedPath(x, y, dir, md)

SpecWeighted == InitTraverse /\ [][NextWeighted]_vars

\* ---- the critical path over node tables of every size -------------------
\* Node.objects.critical_path(weight_field="weight" if weighted else None,
\* max_depth=md): the call's dcc holds weighted; ret.pks the nodes, ret.n the
\* total weight
CriticalPath(weighted, md) ==
    /\ op' = Call("critical_path", 0, 0, 0, 0, weighted, TRUE, FALSE, md, TRUE)
    /\ \E r \in critical_path(nodes, edges, weighted,
                               EffectiveMaxDepth(md, maxDepthSetting)) :
           ret' = Result("ok", r.path, r.total_weight)
    /\ signals' = <<>>
    /\ UNCHANGED <<edges, nextId, maxDepthSetting, writers, nodes>>

\* the node table holds any subset of the nodes, none and one included
InitCritical ==
    /\ nodes \in SUBSET Nodes
    /\ edges = {}
    /\ nextId = 1
    /\ maxDepthSetting = DefaultMaxDepth
    /\ op = NoCall
    /\ ret = Result("none", <<>>, 0)
    /\ signals = <<>>
    /\ writers = [w \in 1..2 |-> Idle]

NextCritical ==
    \/ \E p, c \in nodes, dcc \in BOOLEAN, w \in Weights :
           Building /\ AddChildWeighted(p, c, dcc, w)
    \/ \E weighted \in BOOLEAN, md \in DepthArgs :
           Building /\ CriticalPath(weighted, md)

SpecCritical == InitCritical /\ [][NextCritical]_vars

\* ---- traversals with filter keyword arguments ---------------------------
\* p.add_child(c, edge_set=es): the keyword reaches the edge's constructor
AddChildInSet(p, c, es) ==
    LET guard == SaveGuards(edges, maxDepthSetting, p, c, FALSE, TRUE)
    IN  /\ nextId <= MaxEdgeId
        /\ op' = Call("add_child", p, c, 0, es, FALSE, TRUE, FALSE, NoneArg, TRUE)
        /\ IF guard = "ok"
           THEN /\ edges' = edges \cup {[NewEdge(nextId, p, c) EXCEPT !.edge_set = es]}
                /\ nextId' = nextId + 1
                /\ signals' = <<"pre_edge_create", "INSERT", "post_edge_create">>
                /\ ret' = Result("ok", <<>>, 0)
           ELSE /\ UNCHANGED <<edges, nextId>>
                /\ signals' = <<>>
                /\ ret' = Result(guard, <<>>, 0)
        /\ UNCHANGED <<maxDepthSetting, writers, nodes>>

\* n.ancestors(edge_type=edge_type, **f); the call's filters are the keyword
\* arguments the query is built with
AncestorsFiltered(n, edge_type, f) ==
    /\ op' = [Call("ancestors", n, 0, 0, 0, FALSE, TRUE, FALSE, NoneArg, TRUE)
              EXCEPT !.filters = _resolve_edge_type(edge_type, f)]
    /\ ret' = Result("ok", ancestors_filtered(edges, n, maxDepthSetting, edge_type, f), 0)
    /\ signals' = <<>>
    /\ UNCHANGED <<edges, nextId, maxDepthSetting, writers, nodes>>

\* n.descendants(edge_type=edge_type, **f)
DescendantsFiltered(n, edge_type, f) ==
    /\ op' = [Call("descendants", n, 0, 0, 0, FALSE, TRUE, FALSE, NoneArg, TRUE)
              EXCEPT !.filters = _resolve_edge_type(edge_type, f)]
    /\ ret' = Result("ok", descendants_filtered(edges, n, maxDepthSetting, edge_type, f), 0)
    /\ signals' = <<>>
    /\ UNCHANGED <<edges, nextId, maxDepthSetting, writers, nodes>>

\* a.path(b, directional=directional, **f)
PathFiltered(a, b, directional, f) ==
    LET pks == path_filtered(edges, a, b, directional, maxDepthSetting, f)
    IN  /\ op' = [Call("path", a, b, 0, 0, FALSE, TRUE, FALSE, NoneArg, directional)
                  EXCEPT !.filters = f]
        /\ ret' = IF pks = <<>> THEN Result("NodeNotReachableException", <<>>, 0)
                  ELSE Result("ok", pks, 0)
        /\ signals' = <<>>
        /\ UNCHANGED <<edges, nextId, maxDepthSetting, writers, nodes>>

\* ---- edge_type on stores whose edges carry an edge set -------------------
NextScope ==
    \/ \E p, c \in Nodes, es \in {NoEdgeSet} \cup EdgeSets :
           Building /\ AddChildInSet(p, c, es)
    \/ \E n \in Nodes, t \in {NoneArg} \cup EdgeSets :
           Building /\ AncestorsFiltered(n, t, NoFilters)
    \/ \E n \in Nodes, t \in {NoneArg} \cup EdgeSets :
           Building /\ DescendantsFiltered(n, t, NoFilters)

SpecScope == InitTraverse /\ [][NextScope]_vars

\* ---- allow-lists on stores built with the circular check -----------------
\* allowed_nodes_queryset, the empty queryset included
AllowArgs ==
    {[NoFilters EXCEPT !.allowed_nodes_queryset = QuerySet(S)] : S \in SUBSET Nodes}

NextAllow ==
    \/ \E p, c \in Nodes : Building /\ AddChild(p, c, FALSE, TRUE, FALSE)
    \/ \E n \in Nodes, f \in AllowArgs : Building /\ AncestorsFiltered(n, NoneArg, f)
    \/ \E n \in Nodes, f \in AllowArgs : Building /\ DescendantsFiltered(n, NoneArg, f)

SpecAllow == InitTraverse /\ [][NextAllow]_vars

\* ---- the four lists that hold the node itself ----------------------------
\* n.<name>(max_depth=md), name one of self_and_ancestors, ancestors_and_self,
\* self_and_descendants, descendants_and_self
SelfList(name, n, md, diverges, pks) ==
    /\ op' = Call(name, n, 0, 0, 0, FALSE, TRUE, FALSE, md, TRUE)
    /\ ret' = IF diverges THEN Result("diverges", <<>>, 0) ELSE Result("ok", pks, 0)
    /\ signals' = <<>>
    /\ UNCHANGED <<edges, nextId, maxDepthSetting, writers, nodes>>

SelfAndAncestors(n, md) ==
    SelfList("self_and_ancestors", n, md, AncestorDiverges(edges, n),
             self_and_ancestors(edges, n, EffectiveMaxDepth(md, maxDepthSetting)))

AncestorsAndSelf(n, md) ==
    SelfList("ancestors_and_self", n, md, AncestorDiverges(edges, n),
             ancestors_and_self(edges, n, EffectiveMaxDepth(md, maxDepthSetting)))

SelfAndDescendants(n, md) ==
    SelfList("self_and_descendants", n, md, DescendantDiverges(edges, n),
             self_and_descendants(edges, n, EffectiveMaxDepth(md, maxDepthSetting)))

DescendantsAndSelf(n, md) ==
    SelfList("descendants_and_self", n, md, DescendantDiverges(edges, n),
             descendants_and_self(edges, n, EffectiveMaxDepth(md, maxDepthSetting)))

NextSelf ==
    \/ \E p, c \in Nodes, dcc \in BOOLEAN : Building /\ AddChild(p, c, dcc, TRUE, FALSE)
    \/ \E n \in Nodes, md \in DepthArgs : Building /\ SelfAndAncestors(n, md)
    \/ \E n \in Nodes, md \in DepthArgs : Building /\ AncestorsAndSelf(n, md)
    \/ \E n \in Nodes, md \in DepthArgs : Building /\ SelfAndDescendants(n, md)
    \/ \E n \in Nodes, md \in DepthArgs : Building /\ DescendantsAndSelf(n, md)

SpecSelf == InitTraverse /\ [][NextSelf]_vars

\* ---- connected graph and connected components ---------------------------
\* n.connected_graph(max_depth=md, **f)
ConnectedGraph(n, md, f) ==
    /\ op' = [Call("connected_graph", n, 0, 0, 0, FALSE, TRUE, FALSE, md, TRUE)
              EXCEPT !.filters = f]
    /\ \E pks \in connected_graph(edges, n, EffectiveMaxDepth(md, maxDepthSetting), f) :
           ret' = Result("ok", pks, 0)
    /\ signals' = <<>>
    /\ UNCHANGED <<edges, nextId, maxDepthSetting, writers, nodes>>

\* Node.objects.connected_components(): ret.pks the list of components, each
\* the set of pks of its queryset
ConnectedComponents ==
    /\ op' = Call("connected_components", 0, 0, 0, 0, FALSE, TRUE, FALSE, NoneArg, TRUE)
    /\ \E components \in connected_components(nodes, edges, maxDepthSetting) :
           ret' = Result("ok", components, 0)
    /\ signals' = <<>>
    /\ UNCHANGED <<edges, nextId, maxDepthSetting, writers, nodes>>

\* any node table, under the default setting or a deployment's smaller one
InitComponents ==
    /\ nodes \in SUBSET Nodes
    /\ edges = {}
    /\ nextId = 1
    /\ maxDepthSetting \in {SmallMaxDepth, DefaultMaxDepth}
    /\ op = NoCall
    /\ ret = Result("none", <<>>, 0)
    /\ signals = <<>>
    /\ writers = [w \in 1..2 |-> Idle]

NextComponents ==
    \/ \E p, c \in nodes, dcc \in BOOLEAN : Building /\ AddChild(p, c, dcc, TRUE, FALSE)
    \/ \E n \in nodes, md \in DepthArgs : Building /\ ConnectedGraph(n, md, NoFilters)
    \/ Building /\ ConnectedComponents

SpecComponents == InitComponents /\ [][NextComponents]_vars

\* ---- deny-lists on stores built with the circular check ------------------
EdgeIds == 1..MaxEdgeId

\* disallowed_nodes_queryset or disallowed_edges_queryset, one at a time
DenyArgs ==
    {[NoFilters EXCEPT !.disallowed_nodes_queryset = QuerySet(D)] : D \in SUBSET Nodes}
    \cup {[NoFilters EXCEPT !.disallowed_edges_queryset = QuerySet(D)] : D \in SUBSET EdgeIds}

NextDeny ==
    \/ \E p, c \in Nodes : Building /\ AddChild(p, c, FALSE, TRUE, FALSE)
    \/ \E n \in Nodes, f \in DenyArgs : Building /\ AncestorsFiltered(n, NoneArg, f)
    \/ \E n \in Nodes, f \in DenyArgs : Building /\ DescendantsFiltered(n, NoneArg, f)
    \/ \E n \in Nodes, f \in DenyArgs : Building /\ ConnectedGraph(n, NoneArg, f)
    \/ \E x, y \in Nodes, dir \in BOOLEAN, f \in DenyArgs :
           Building /\ PathFiltered(x, y, dir, f)

SpecDeny == InitTraverse /\ [][NextDeny]_vars

\* ---- graph-wide queries over stores built with the circular check -------
\* a.lowest_common_ancestors(b, max_depth=md)
LCA(a, b, md) ==
    /\ op' = Call("lowest_common_ancestors", a, b, 0, 0, FALSE, TRUE, FALSE, md, TRUE)
    /\ ret' = Result("ok", lowest_common_ancestors(edges, a, b,
                               EffectiveMaxDepth(md, maxDepthSetting)), 0)
    /\ signals' = <<>>
    /\ UNCHANGED <<edges, nextId, maxDepthSetting, writers, nodes>>

\* Node.objects.topological_sort(max_depth=md)
TopologicalSort(md) ==
    /\ op' = Call("topological_sort", 0, 0, 0, 0, FALSE, TRUE, FALSE, md, TRUE)
    /\ ret' = Result("ok", topological_sort(nodes, edges,
                               EffectiveMaxDepth(md, maxDepthSetting)), 0)
    /\ signals' = <<>>
    /\ UNCHANGED <<edges, nextId, maxDepthSetting, writers, nodes>>

\* Node.objects.transitive_reduction(delete): the call's dcc holds delete.
\* The query is built without max_depth, so the setting bounds it. The dry
\* run returns the edges (ret.pks their ids); qs.delete() is a bulk delete,
\* which does not go through Edge.delete and sends no edge signal.
TransitiveReduction(delete) ==
    LET redundant_edge_ids == TransitiveReductionQuery(edges, maxDepthSetting)
    IN  /\ op' = Call("transitive_reduction", 0, 0, 0, 0, delete, TRUE, FALSE, NoneArg, TRUE)
        /\ IF delete
           THEN /\ edges' = {e \in edges : e.id \notin redundant_edge_ids}
                /\ signals' = <<"DELETE">>
                /\ ret' = Result("ok", <<>>, Cardinality(redundant_edge_ids))
           ELSE /\ UNCHANGED edges
                /\ signals' = <<>>
                /\ ret' = Result("ok", OrderBy(redundant_edge_ids,
                                     [i \in redundant_edge_ids |-> i]), 0)
        /\ UNCHANGED <<nextId, maxDepthSetting, writers, nodes>>

NextGraph ==
    \/ \E p, c \in Nodes :
           Building /\ AddChildUpTo(p, c, FALSE, DefaultWeight, MaxGraphEdges)
    \/ \E x, y \in Nodes, md \in DepthArgs : Building /\ LCA(x, y, md)
    \/ \E md \in DepthArgs : Building /\ TopologicalSort(md)
    \/ \E delete \in BOOLEAN : Building /\ TransitiveReduction(delete)

SpecGraph == InitTraverse /\ [][NextGraph]_vars

\* ---- the reachability predicates ---------------------------------------------
\* a.is_ancestor_of(b)
IsAncestorOf(a, b) ==
    /\ op' = Call("is_ancestor_of", a, b, 0, 0, FALSE, TRUE, FALSE, NoneArg, TRUE)
    /\ ret' = Result(IF is_ancestor_of(edges, a, b, maxDepthSetting)
                     THEN "True" ELSE "False", <<>>, 0)
    /\ signals' = <<>>
    /\ UNCHANGED <<edges, nextId, maxDepthSetting, writers, nodes>>

\* a.is_descendant_of(b)
IsDescendantOf(a, b) ==
    /\ op' = Call("is_descendant_of", a, b, 0, 0, FALSE, TRUE, FALSE, NoneArg, FALSE)
    /\ ret' = Result(IF is_descendant_of(edges, a, b, maxDepthSetting)
                     THEN "True" ELSE "False", <<>>, 0)
    /\ signals' = <<>>
    /\ UNCHANGED <<edges, nextId, maxDepthSetting, writers, nodes>>

NextPredicates ==
    \/ \E p, c \in Nodes :
           Building /\ AddChildUpTo(p, c, FALSE, DefaultWeight, MaxGraphEdges)
    \/ \E a, b \in Nodes : Building /\ IsAncestorOf(a, b)
    \/ \E a, b \in Nodes : Building /\ IsDescendantOf(a, b)

SpecPredicates == InitTraverse /\ [][NextPredicates]_vars

\* ---- two writers, each running Edge.save statement by statement ----------
\* Edge.save runs circular_checker (a SELECT) and then super().save() (an
\* INSERT) with no transaction or lock around the two.
Probe(w, p, c) ==
    LET guard == circular_checker(edges, maxDepthSetting, p, c)
    IN  /\ writers[w].pc = "idle"
        /\ nextId <= MaxEdgeId
        /\ op' = Call("circular_checker", p, c, 0, w, FALSE, TRUE, FALSE, NoneArg, TRUE)
        /\ ret' = Result(guard, <<>>, 0)
        /\ signals' = <<>>
        /\ writers' = IF guard = "ok"
                      THEN [writers EXCEPT ![w] = [pc |-> "probed", parent |-> p,
                                                   child |-> c, seen |-> edges]]
                      ELSE writers
        /\ UNCHANGED <<edges, nextId, maxDepthSetting, nodes>>

Write(w) ==
    /\ writers[w].pc = "probed"
    /\ op' = Call("save", writers[w].parent, writers[w].child, nextId, w,
                  FALSE, TRUE, FALSE, NoneArg, TRUE)
    /\ edges' = edges \cup {NewEdge(nextId, writers[w].parent, writers[w].child)}
    /\ nextId' = nextId + 1
    /\ signals' = <<"pre_edge_create", "INSERT", "post_edge_create">>
    /\ ret' = Result("ok", <<>>, 0)
    /\ writers' = [writers EXCEPT ![w] = Idle]
    /\ UNCHANGED <<maxDepthSetting, nodes>>

NextRace ==
    \/ \E w \in 1..2, p, c \in Nodes : Probe(w, p, c)
    \/ \E w \in 1..2 : Write(w)

SpecRace == InitTraverse /\ [][NextRace]_vars

\* ---- reachability, stated on paths (independent of the queries) ----------
\* a walk of exactly k edges from a to b
HasWalk(E, a, b, k) ==
    \E s \in [1..(k + 1) -> Nodes] :
        /\ s[1] = a
        /\ s[k + 1] = b
        /\ \A i \in 1..k : \E e \in E : e.parent = s[i] /\ e.child = s[i + 1]

\* b is reachable from a by at least one edge (a walk can be cut down to
\* at most NumNodes edges)
Reaches(E, a, b) == \E k \in 1..NumNodes : HasWalk(E, a, b, k)

AcyclicStore(E) == \A n \in Nodes : ~Reaches(E, n, n)

StoresEdge(E0, E1, p, c) == \E e \in E1 \ E0 : e.parent = p /\ e.child = c /\ E1 = E0 \cup {e}

\* C1: with every mutation made by a single writer with the circular check
\* enabled, the edge store never holds a chain of edges from a node back to
\* itself.
C1_SingleWriterAcyclic == AcyclicStore(edges)

\* C2: P.add_child(C) with the check enabled and default flags raises
\* ValidationError exactly when C is P or C is an ancestor of P, leaving the
\* store as it was and sending no signal, and stores the edge otherwise.
C2_AddChildRaisesIffAncestor ==
    [][(op'.name = "add_child" /\ ~op'.dcc /\ op'.ade /\ ~op'.kw) =>
         IF op'.c = op'.p \/ Reaches(edges, op'.c, op'.p)
         THEN ret'.outcome = "ValidationError" /\ edges' = edges /\ signals' = <<>>
         ELSE ret'.outcome = "ok" /\ StoresEdge(edges, edges', op'.p, op'.c)]_vars

\* C4: insert_node(edge P->C, N) either replaces the edge by P->N and N->C,
\* every other edge unchanged, or leaves the edge store exactly as it was.
C4_InsertNodeAllOrNothing ==
    [][op'.name = "insert_node" =>
         LET orig == CHOOSE e \in edges : e.id = op'.e
         IN  IF ret'.outcome = "ok"
             THEN /\ orig \notin edges'
                  /\ \E r, l \in edges' \ edges :
                        /\ r # l
                        /\ r.parent = orig.parent /\ r.child = op'.n
                        /\ l.parent = op'.n /\ l.child = orig.child
                        /\ edges' = (edges \ {orig}) \cup {r, l}
             ELSE edges' = edges /\ orig \in edges']_vars

\* the leaf-side edge was rejected after the root-side edge had been saved
C4_Witness ==
    /\ op.name = "insert_node" /\ ret.outcome = "ValidationError" /\ ret.n = 2
    /\ op.n \notin {op.p, op.c}

\* C6: with the circular check passing, add_child(allow_duplicate_edges=False)
\* raises ValidationError if and only if an edge with exactly the pair (P, C)
\* is stored; reachability through other nodes alone does not make it raise.
C6_DuplicateCheckerExactPairOnly ==
    [][(/\ op'.name = "add_child" /\ ~op'.ade /\ ~op'.kw
        /\ op'.p # op'.c /\ ~Reaches(edges, op'.c, op'.p)) =>
         (ret'.outcome = "ValidationError"
            <=> \E e \in edges : e.parent = op'.p /\ e.child = op'.c)]_vars

\* C7: with the circular check passing, add_child/add_parent called with
\* allow_redundant_edges=False raise ValidationError exactly when C is already
\* reachable from P, leaving the store unchanged, and store the edge otherwise.
C7_RedundantCheckerRejectsReachable ==
    [][(/\ op'.name \in {"add_child", "add_parent"} /\ op'.kw /\ op'.ade
        /\ op'.p # op'.c /\ ~Reaches(edges, op'.c, op'.p)) =>
         IF Reaches(edges, op'.p, op'.c)
         THEN ret'.outcome = "ValidationError" /\ edges' = edges
         ELSE ret'.outcome = "ok" /\ StoresEdge(edges, edges', op'.p, op'.c)]_vars

\* C3: with two writers, a write whose probe read an older store is the only
\* way a cycle enters the store while every call keeps the check enabled; the
\* witness is the store holding A->B and B->A after two such calls.
C3_CycleOnlyThroughStaleProbe ==
    [][(AcyclicStore(edges) /\ ~AcyclicStore(edges')) =>
         \E w \in 1..2 : /\ writers[w].pc = "probed"
                         /\ writers'[w].pc = "idle"
                         /\ writers[w].seen # edges]_vars

\* both add_child(A, B) and add_child(B, A) passed their probe on the empty
\* store and both edges are stored
C3_Witness ==
    \E a, b \in Nodes :
        /\ a # b
        /\ op.name = "save"
        /\ Cardinality(edges) = 2
        /\ \E e \in edges : e.parent = a /\ e.child = b
        /\ \E e \in edges : e.parent = b /\ e.child = a

\* C5: every traversal returns on every finite store, one holding a cycle
\* included.
C5_TraversalsTerminate == op.name \in Traversals => ret.outcome # "diverges"

\* b is reachable from a by a path of between 1 and d edges (a path of an
\* acyclic store has fewer than NumNodes edges)
WithinDepth(E, a, b, d) == \E k \in 1..Min(d, NumNodes) : HasWalk(E, a, b, k)

NoDuplicates(s) == \A i, j \in 1..Len(s) : s[i] = s[j] => i = j

Index(s, x) == CHOOSE i \in 1..Len(s) : s[i] = x

\* C8: on an acyclic store N.ancestors(max_depth=d) lists, once each, exactly
\* the nodes from which N is reachable by 1..d edges, and never N;
\* N.descendants(max_depth=d) is the mirror image.
C8_AncestorsDescendantsExact ==
    (op.name \in {"ancestors", "descendants"} /\ ret.outcome = "ok" /\ AcyclicStore(edges)) =>
        LET d == EffectiveMaxDepth(op.md, maxDepthSetting)
        IN  /\ NoDuplicates(ret.pks)
            /\ op.p \notin Range(ret.pks)
            /\ Range(ret.pks) =
                 IF op.name = "ancestors"
                 THEN {x \in Nodes : WithinDepth(edges, x, op.p, d)}
                 ELSE {x \in Nodes : WithinDepth(edges, op.p, x, d)}

\* ancestors(max_depth=1) returned a parent and left out a deeper ancestor
C8_Witness ==
    /\ op.name = "ancestors" /\ op.md = 1 /\ ret.outcome = "ok"
    /\ AcyclicStore(edges)
    /\ ret.pks # <<>>
    /\ \E x \in Nodes \ Range(ret.pks) : Reaches(edges, x, op.p)

\* C9: on an acyclic store, for every max_depth, the list returned by
\* ancestors() or descendants() has P before C for every stored edge (P, C)
\* with both endpoints in the list.
C9_TraversalOrderTopological ==
    (op.name \in {"ancestors", "descendants"} /\ ret.outcome = "ok" /\ AcyclicStore(edges)) =>
        \A e \in edges :
            (e.parent \in Range(ret.pks) /\ e.child \in Range(ret.pks)) =>
                Index(ret.pks, e.parent) < Index(ret.pks, e.child)

C11_NondirectionalPathRootToLeaf ==
    (op.name = "path" /\ ~op.directional /\ ret.outcome = "ok") =>
        \A i \in 1..(Len(ret.pks) - 1) :
            \E e \in edges : e.parent = ret.pks[i] /\ e.child = ret.pks[i + 1]

\* the least number of edges of a directed path from a to b that has at most
\* d edges (0 when a is b)
ShortestWithin(E, a, b, d) ==
    IF a = b THEN 0
    ELSE CHOOSE k \in 1..Min(d, NumNodes) :
             /\ HasWalk(E, a, b, k)
             /\ \A j \in 1..(k - 1) : ~HasWalk(E, a, b, j)

\* C12: A.distance(B) is the least number of edges over the directed paths
\* from A to B of at most max_depth edges, also when a direct edge and a
\* longer path between the two coexist.
C12_PathIsShortest ==
    (/\ op.name = "path" /\ ret.outcome = "ok"
     /\ (op.p = op.c \/ WithinDepth(edges, op.p, op.c,
                                    EffectiveMaxDepth(op.md, maxDepthSetting)))) =>
        /\ ret.n = ShortestWithin(edges, op.p, op.c,
                                  EffectiveMaxDepth(op.md, maxDepthSetting))
        /\ Len(ret.pks) = ret.n + 1

\* a direct edge A -> B and a path A -> X -> B coexist and the distance is 1
C12_Witness ==
    /\ op.name = "path" /\ ret.outcome = "ok"
    /\ ret.n = 1
    /\ HasWalk(edges, op.p, op.c, 2)
    /\ AcyclicStore(edges)

\* a directed path from a to b of at most d edges exists (the empty path
\* when a is b)
PathWithin(E, a, b, d) == a = b \/ WithinDepth(E, a, b, d)

\* the call of path or path_exists found no path: the exception, or False
NotReachableOutcome ==
    \/ op.name = "path" /\ ret.outcome = "NodeNotReachableException"
    \/ op.name = "path_exists" /\ ret.outcome = "False"

\* C13: path raises NodeNotReachableException (and path_exists returns
\* False) exactly when no directed path A -> B of at most max_depth edges
\* exists, with directional=False exactly when neither direction has one;
\* the upward query runs only after the downward query returned nothing.
C13_NotReachableExactly ==
    op.name \in {"path", "path_exists"} =>
        LET d == EffectiveMaxDepth(op.md, maxDepthSetting)
        IN  /\ NotReachableOutcome <=>
                 /\ ~PathWithin(edges, op.p, op.c, d)
                 /\ op.directional \/ ~PathWithin(edges, op.c, op.p, d)
            /\ "UpwardPathQuery" \in Range(ret.queries) =>
                 /\ ret.queries = <<"DownwardPathQuery", "UpwardPathQuery">>
                 /\ ~op.directional
                 /\ ~PathWithin(edges, op.p, op.c, d)

\* a directional path call raised although B -> ... -> A exists
C13_Witness ==
    /\ op.name = "path" /\ op.directional
    /\ ret.outcome = "NodeNotReachableException"
    /\ Reaches(edges, op.c, op.p)
    /\ AcyclicStore(edges)

\* the node lists of the directed paths from a to b of at most d edges that
\* visit no node twice
SimplePaths(E, a, b, d) ==
    UNION {{s \in [1..(k + 1) -> Nodes] :
              /\ s[1] = a /\ s[k + 1] = b
              /\ \A i, j \in 1..(k + 1) : s[i] = s[j] => i = j
              /\ \A i \in 1..k : \E e \in E : e.parent = s[i] /\ e.child = s[i + 1]}
           : k \in 1..Min(d, NumNodes - 1)}

NoParallelEdges(E) ==
    \A e, f \in E : (e.parent = f.parent /\ e.child = f.child) => e = f

\* C14: A.all_paths_as_pk_lists(B) returns every directed path from A to B
\* of at most max_depth edges, each starting with A and ending with B and
\* following stored edges, in non-decreasing order of length; [[A]] when B
\* is A, the empty list when B is unreachable from A.
C14_AllPathsComplete ==
    (op.name = "all_paths_as_pk_lists" /\ op.directional /\ op.n = NoneArg) =>
        LET d == EffectiveMaxDepth(op.md, maxDepthSetting)
        IN  IF op.p = op.c THEN ret.pks = << <<op.p>> >>
            ELSE /\ SimplePaths(edges, op.p, op.c, d) \subseteq Range(ret.pks)
                 /\ \A i \in 1..Len(ret.pks) :
                      LET s == ret.pks[i]
                      IN  /\ s[1] = op.p /\ s[Len(s)] = op.c
                          /\ Len(s) - 1 <= d
                          /\ \A j \in 1..(Len(s) - 1) :
                               \E e \in edges : e.parent = s[j] /\ e.child = s[j + 1]
                 /\ \A i, j \in 1..Len(ret.pks) :
                      i < j => Len(ret.pks[i]) <= Len(ret.pks[j])
                 /\ AcyclicStore(edges) =>
                      Range(ret.pks) = SimplePaths(edges, op.p, op.c, d)
                 /\ (AcyclicStore(edges) /\ NoParallelEdges(edges)) =>
                      NoDuplicates(ret.pks)
                 /\ ~Reaches(edges, op.p, op.c) => ret.pks = <<>>

\* the direct edge A -> B and the path A -> X -> B, both returned, the
\* shorter first
C14_Witness ==
    /\ op.name = "all_paths_as_pk_lists" /\ op.directional /\ op.n = NoneArg
    /\ AcyclicStore(edges)
    /\ Len(ret.pks) = 2
    /\ Len(ret.pks[1]) = 2 /\ Len(ret.pks[2]) = 3

\* the rows of the all-paths query that served the call, taken from the
\* edge table directly: the chains of edges from a down to b (up from a to b
\* when upward) of at most d edges in which no edge starts (ends) at a node
\* an earlier one started (ended) at
EdgeChains(E, a, b, d, upward) ==
    UNION {{s \in [1..k -> E] :
              /\ IF upward THEN s[1].child = a /\ s[k].parent = b
                 ELSE s[1].parent = a /\ s[k].child = b
              /\ \A i \in 1..(k - 1) :
                   IF upward THEN s[i].parent = s[i + 1].child
                   ELSE s[i].child = s[i + 1].parent
              /\ \A i, j \in 1..k :
                   (IF upward THEN s[i].child = s[j].child
                    ELSE s[i].parent = s[j].parent) => i = j}
           : k \in 1..Min(d, NumNodes)}

\* the number of chains of fewer than n edges
ShorterThan(chains, n) == Cardinality({c \in chains : Len(c) < n})

\* C15: with max_results=k the call returns min(k, number of paths) paths
\* and they are a shortest-first prefix of the uncapped result: no omitted
\* path is shorter than a returned one; the same for the upward query used
\* with directional=False.
C15_MaxResultsShortestPrefix ==
    (op.name = "all_paths_as_pk_lists" /\ op.n # NoneArg /\ op.p # op.c) =>
        LET d      == EffectiveMaxDepth(op.md, maxDepthSetting)
            down   == EdgeChains(edges, op.p, op.c, d, FALSE)
            up     == EdgeChains(edges, op.p, op.c, d, TRUE)
            chains == IF down = {} /\ ~op.directional THEN up ELSE down
        IN  /\ Len(ret.pks) = Min(op.n, Cardinality(chains))
            /\ \A i \in 1..Len(ret.pks) :
                 /\ \E c \in chains : Len(c) = Len(ret.pks[i]) - 1
                 /\ ShorterThan(chains, Len(ret.pks[i]) - 1) < i
            /\ \A i, j \in 1..Len(ret.pks) :
                 i < j => Len(ret.pks[i]) <= Len(ret.pks[j])

\* max_results=1 with a direct edge and a two-edge path: the direct edge is
\* the one returned
C15_Witness ==
    /\ op.name = "all_paths_as_pk_lists" /\ op.n = 1
    /\ AcyclicStore(edges)
    /\ Cardinality(EdgeChains(edges, op.p, op.c, NumNodes, FALSE)) = 2
    /\ Len(ret.pks) = 1
    /\ Len(ret.pks[1]) = 2
    /\ HasWalk(edges, op.p, op.c, 2)

RECURSIVE SumOfWeights(_, _)
SumOfWeights(c, i) == IF i = 0 THEN 0 ELSE SumOfWeights(c, i - 1) + c[i].weight

\* the node list of a chain of edges going down
ChainNodes(c) == [i \in 1..(Len(c) + 1) |-> IF i = 1 THEN c[1].parent ELSE c[i - 1].child]

\* C16: A.weighted_path(B) returns a directed path from A to B whose total
\* weight is the least sum of edge weights over the directed paths from A to
\* B of at most max_depth edges, also when a path of fewer edges but larger
\* weight exists; the path from A to A is [A] with weight 0.
C16_WeightedPathIsLightest ==
    (op.name = "weighted_path" /\ op.directional) =>
        LET d      == EffectiveMaxDepth(op.md, maxDepthSetting)
            chains == EdgeChains(edges, op.p, op.c, d, FALSE)
        IN  IF op.p = op.c THEN ret.outcome = "ok" /\ ret.pks = <<op.p>> /\ ret.n = 0
            ELSE /\ ret.outcome = "ok" <=> chains # {}
                 /\ ret.outcome = "ok" =>
                      /\ \A c \in chains : ret.n <= SumOfWeights(c, Len(c))
                      /\ \E c \in chains : /\ ChainNodes(c) = ret.pks
                                           /\ SumOfWeights(c, Len(c)) = ret.n

\* the direct edge weighs more than the two-edge path, which is returned
C16_Witness ==
    /\ op.name = "weighted_path" /\ op.directional /\ ret.outcome = "ok"
    /\ AcyclicStore(edges)
    /\ Len(ret.pks) = 3
    /\ \E e \in edges : e.parent = op.p /\ e.child = op.c /\ e.weight > ret.n

\* x is a or an ancestor of a
AncestorOrSelf(E, x, a) == x = a \/ Reaches(E, x, a)

C18_TopologicalSortValid ==
    (op.name = "topological_sort" /\ AcyclicStore(edges)) =>
        /\ Range(ret.pks) = nodes
        /\ NoDuplicates(ret.pks)
        /\ \A e \in edges :
             (e.parent \in Range(ret.pks) /\ e.child \in Range(ret.pks)) =>
                 Index(ret.pks, e.parent) < Index(ret.pks, e.child)

\* the chains of k edges that lead from r down to l through k + 1 different
\* nodes, taken from the edge table directly; the empty chain when r = l
RootToLeafChains(E, r, l) ==
    (IF r = l THEN {<<>>} ELSE {}) \cup
    UNION {{s \in [1..k -> E] :
              /\ s[1].parent = r /\ s[k].child = l
              /\ \A i \in 1..(k - 1) : s[i].child = s[i + 1].parent
              /\ \A i \in 1..k : s[i].child # r
              /\ \A i, j \in 1..k : s[i].child = s[j].child => i = j}
           : k \in 1..(NumNodes - 1)}

\* every root-to-leaf path of the store with its weight: the number of its
\* edges, or the sum of their weight field
RootToLeafPaths(N, E, weighted) ==
    LET roots  == {n \in N : \A e \in E : e.child # n}
        leaves == {n \in N : \A e \in E : e.parent # n}
    IN  UNION {{[path |-> IF c = <<>> THEN <<r>> ELSE ChainNodes(c),
                 total_weight |-> IF weighted THEN SumOfWeights(c, Len(c)) ELSE Len(c)] :
                   c \in RootToLeafChains(E, r, l)} : <<r, l>> \in roots \X leaves}

RedundantEdges(E, d) ==
    {e \in E : \E k \in 2..Min(d, NumNodes) : HasWalk(E, e.parent, e.child, k)}

RECURSIVE WeakClosure(_, _)
WeakClosure(E, S) ==
    LET T == S \cup {e.parent : e \in {f \in E : f.child \in S}}
                \cup {e.child : e \in {f \in E : f.parent \in S}}
    IN  IF T = S THEN S ELSE WeakClosure(E, T)

WeakComponent(E, n) == WeakClosure(E, {n})

\* C21: N.connected_graph() returns, each once, exactly the nodes of the
\* weakly connected component of N, N included, whatever the size and the
\* diameter of the component.
C21_ConnectedGraphIsComponent ==
    (op.name = "connected_graph" /\ op.filters = NoFilters /\ op.md = NoneArg) =>
        /\ \A i, j \in 1..Len(ret.pks) : ret.pks[i] = ret.pks[j] => i = j
        /\ Range(ret.pks) = WeakComponent(edges, op.p)

\* C28: connected_components() returns a partition of the node table whose
\* blocks are the weakly connected components: every node in exactly one
\* block, two nodes in one block exactly when connected ignoring direction,
\* no block for an empty table and a block of its own for every island.
C28_ComponentsPartition ==
    (op.name = "connected_components") =>
        /\ \A n \in nodes :
             Cardinality({i \in 1..Len(ret.pks) : n \in ret.pks[i]}) = 1
        /\ \A i \in 1..Len(ret.pks) :
             \E n \in nodes : ret.pks[i] = WeakComponent(edges, n)
        /\ (nodes = {} => ret.pks = <<>>)

\* the edges tagged t
Tagged(E, t) == {e \in E : e.edge_set = t}

\* C22: N.ancestors(edge_type=T) and N.descendants(edge_type=T) return
\* exactly the nodes joined to N by a path of edges tagged T only: a node
\* joined by one T-tagged edge is returned though it has no further edge,
\* and a node all of whose connecting paths use an edge not tagged T is not.
C22_EdgeTypeRestrictsToTaggedPaths ==
    /\ (op.name = "ancestors" /\ op.filters.limiting_edges_set_fk # NoneArg) =>
          Range(ret.pks) = {x \in Nodes :
              Reaches(Tagged(edges, op.filters.limiting_edges_set_fk), x, op.p)}
    /\ (op.name = "descendants" /\ op.filters.limiting_edges_set_fk # NoneArg) =>
          Range(ret.pks) = {x \in Nodes :
              Reaches(Tagged(edges, op.filters.limiting_edges_set_fk), op.p, x)}

\* the edges a traversal from n may follow under the deny-lists of f: those
\* not denied whose ends, n apart, are not denied
Undenied(E, n, f) ==
    {e \in E : /\ e.id \notin f.disallowed_edges_queryset.pks
               /\ e.parent \in f.disallowed_nodes_queryset.pks => e.parent = n
               /\ e.child \in f.disallowed_nodes_queryset.pks => e.child = n}

\* consecutive nodes of the list are joined by an edge of E, either way round
FollowsEdges(pks, E) ==
    \A i \in 1..(Len(pks) - 1) :
        \E e \in E : {e.parent, e.child} = {pks[i], pks[i + 1]}

DenyCall ==
    /\ op.name \in {"ancestors", "descendants", "connected_graph", "path"}
    /\ op.filters.disallowed_nodes_queryset.given \/ op.filters.disallowed_edges_queryset.given

\* C23: under disallowed_nodes_queryset=D, ancestors, descendants,
\* connected_graph and path return no node of D, a path runs through none,
\* and a node reachable only through nodes of D is not returned; under
\* disallowed_edges_queryset=E no edge of E is followed and the nodes
\* reachable by other edges stay in the result.
C23_DenyListsHonoured ==
    DenyCall =>
        LET f == op.filters
            E == Undenied(edges, op.p, f)
        IN  /\ Range(ret.pks) \cap f.disallowed_nodes_queryset.pks = {}
            /\ op.name = "ancestors" =>
                 Range(ret.pks) = {x \in Nodes : Reaches(E, x, op.p)}
            /\ op.name = "descendants" =>
                 Range(ret.pks) = {x \in Nodes : Reaches(E, op.p, x)}
            /\ op.name = "connected_graph" =>
                 Range(ret.pks) = WeakComponent(E, op.p)
            /\ op.name = "path" =>
                 /\ ret.outcome = "ok" <=>
                       \/ op.p = op.c
                       \/ Reaches(E, op.p, op.c)
                       \/ ~op.directional /\ Reaches(E, op.c, op.p)
                 /\ FollowsEdges(ret.pks, E)

\* C29: for every allow-list S passed as allowed_nodes_queryset, the empty
\* one included, every node N.descendants(...) or N.ancestors(...) returns
\* belongs to S.
C29_AllowListBoundsResult ==
    (op.name \in {"ancestors", "descendants"} /\ op.filters.allowed_nodes_queryset.given) =>
        Range(ret.pks) \subseteq op.filters.allowed_nodes_queryset.pks

\* C24: for every node N, self_and_ancestors(N) starts with N and read
\* backwards is ancestors_and_self(N); self_and_descendants(N) starts with N
\* and read backwards is descendants_and_self(N) (the same keyword arguments
\* in both calls, and both calls returning).
C24_SelfListsMirror ==
    LET d == EffectiveMaxDepth(op.md, maxDepthSetting)
    IN  /\ (op.name = "self_and_ancestors" /\ ret.outcome = "ok") =>
              /\ ret.pks[1] = op.p
              /\ Reverse(ret.pks) = ancestors_and_self(edges, op.p, d)
        /\ (op.name = "ancestors_and_self" /\ ret.outcome = "ok") =>
              /\ Reverse(ret.pks) = self_and_ancestors(edges, op.p, d)
              /\ ret.pks[Len(ret.pks)] = op.p
        /\ (op.name = "self_and_descendants" /\ ret.outcome = "ok") =>
              /\ ret.pks[1] = op.p
              /\ Reverse(ret.pks) = descendants_and_self(edges, op.p, d)
        /\ (op.name = "descendants_and_self" /\ ret.outcome = "ok") =>
              /\ Reverse(ret.pks) = self_and_descendants(edges, op.p, d)
              /\ ret.pks[Len(ret.pks)] = op.p

\* a node with a parent and a grandparent: self_and_ancestors lists the node,
\* the parent, the grandparent
C24_Witness ==
    /\ op.name = "self_and_ancestors" /\ ret.outcome = "ok"
    /\ Len(ret.pks) = 3
    /\ \E e \in edges : e.child = ret.pks[1] /\ e.parent = ret.pks[2]
    /\ \E e \in edges : e.child = ret.pks[2] /\ e.parent = ret.pks[3]

\* ---- signals around writes -------------------------------------------------
Wrapped(i, before, after) ==
    /\ i > 1
    /\ i < Len(signals)
    /\ signals[i - 1] = before
    /\ signals[i + 1] = after

\* C26: every successful creation of a new edge has exactly one pre_edge_create right
\* before the row is stored and one post_edge_create right after it, and a
\* re-save of a stored edge has neither; every removal of edges by
\* Edge.delete, remove_child, remove_parent or insert_node has pre_edge_delete
\* before and post_edge_delete after the rows are deleted, and a bulk removal
\* sends exactly one such pair.
C26_SignalsBracketWrites ==
    /\ \A i \in 1..Len(signals) :
        /\ (signals[i] = "INSERT" /\ ret.outcome = "ok") =>
               Wrapped(i, "pre_edge_create", "post_edge_create")
        /\ signals[i] \in {"pre_edge_create", "post_edge_create"} =>
               \/ i < Len(signals) /\ signals[i + 1] = "INSERT"
               \/ i > 1 /\ signals[i - 1] = "INSERT"
        /\ signals[i] = "UPDATE" => Len(signals) = 1
        /\ (/\ signals[i] = "DELETE"
            /\ op.name \in {"edge_delete", "remove_child", "remove_parent",
                            "insert_node"}) =>
               Wrapped(i, "pre_edge_delete", "post_edge_delete")
        /\ signals[i] \in {"pre_edge_delete", "post_edge_delete"} =>
               \/ i < Len(signals) /\ signals[i + 1] = "DELETE"
               \/ i > 1 /\ signals[i - 1] = "DELETE"
    /\ (op.name \in {"remove_child", "remove_parent"} /\ signals # <<>>) =>
           signals = <<"pre_edge_delete", "DELETE", "post_edge_delete">>

\* C27: on an acyclic store transitive_reduction(delete=True) leaves every
\* pair of nodes exactly as reachable as it was, and a second run right after
\* it finds no redundant edge.
C27_ReductionPreservesReachability ==
    [][(op'.name = "transitive_reduction" /\ op'.dcc /\ AcyclicStore(edges)) =>
         /\ \A x, y \in Nodes : Reaches(edges', x, y) <=> Reaches(edges, x, y)
         /\ TransitiveReductionQuery(edges', maxDepthSetting) = {}]_vars

\* one redundant edge deleted, its ends still joined through the edges left
C27_Witness ==
    /\ op.name = "transitive_reduction" /\ op.dcc
    /\ ret.n = 1
    /\ Cardinality(edges) >= 2
    /\ \E x, y \in Nodes :
        /\ Reaches(edges, x, y)
        /\ \A e \in edges : ~(e.parent = x /\ e.child = y)

\* C30: for all nodes A and B, A = B included, A.is_ancestor_of(B) is true
\* exactly when A is in B.ancestors(), and A.is_ancestor_of(B) equals
\* B.is_descendant_of(A).
C30_PredicatesAgree ==
    /\ op.name = "is_ancestor_of" =>
        /\ (ret.outcome = "True") <=>
               op.p \in Range(ancestors(edges, op.c, maxDepthSetting))
        /\ (ret.outcome = "True") <=>
               is_descendant_of(edges, op.c, op.p, maxDepthSetting)
    /\ op.name = "is_descendant_of" =>
        (ret.outcome = "True") <=>
            is_ancestor_of(edges, op.c, op.p, maxDepthSetting)

\* C25: P.remove_child(C) deletes every edge whose pair is exactly (P, C),
\* parallel ones included, and leaves the nodes and every other edge as they
\* are, so that nothing changes when no such edge is stored; C.remove_parent(P)
\* does the same.
C25_RemoveChildFrame ==
    [][(op'.name \in {"remove_child", "remove_parent"} /\ op'.p # 0 /\ op'.c # 0) =>
         /\ edges' = {e \in edges : ~(e.parent = op'.p /\ e.child = op'.c)}
         /\ nodes' = nodes]_vars

\* two parallel edges removed by one call while the child keeps another parent
C25_Witness ==
    /\ op.name = "remove_child" /\ op.c # 0
    /\ ret.n = 2
    /\ \E e \in edges : e.child = op.c /\ e.parent # op.p

====
